---- MODULE Spec2Model ----
(***************************************************************************)
(* Model of the factory-name-request part of NCrystal's cfg-variable       *)
(* definitions (NCCfgVars.hh): class FactNameRequest, its Parser, the      *)
(* two const "update" methods and the str2val of the factory variables.    *)
(*                                                                         *)
(* A string (std::string / StrView) is a sequence of one-character         *)
(* strings.  A thrown Error::BadInput is a record holding the kind of      *)
(* message and the names the message text quotes.                          *)
(***************************************************************************)
EXTENDS Integers, Sequences, FiniteSets, TLC

VARIABLES pc, self, ret, call, nops, stored

vars == <<pc, self, ret, call, nops, stored>>

----------------------------------------------------------------------------
(* Bounds of the model *)

\* longest string handed to doParse / str2val by the environment
MaxLen == 4

\* most update calls (withAdditionalExclude, withNoSpecificRequest, re-parse)
\* chained after one doParse
MaxOps == 2

\* characters the enumerated input strings are made of
Alphabet == {"a", "b", "!", "@", " ", "$"}

StrUpTo(n) == UNION { [1..k -> Alphabet] : k \in 0..n }

\* hand-picked further inputs: one for each class of character that
\* checkValidFactoryName tells apart, and longer combinations of entries
ExtraInputs ==
  { <<"A">>, <<"Z">>, <<"z">>, <<"0">>, <<"9">>, <<"_">>, <<"-">>,
    <<"a", "_", "-", "@", "!", "B", "0">>,
    <<"!", " ", "Z", "9", " ", "@", " ", "-", "_", " ">>,
    <<"a", "\t", "@", "\t", "!", "\t", "b">>,
    <<"a", ".", "b">>, <<"!", "a", "/", "b">>,
    <<"a", "@", "!", "b", "@", "!", "c", "@", "!", "b">>,
    <<"!", "a", "@", "!", "a">>, <<"!", "a", "@", "!", " ", "a", " ">>,
    <<"!", "@", "a", "@", "a">>, <<"a", "@", "!", "@", "b">>,
    <<"!", "a", "@", "!", "b", "@", "a">>, <<"b", "@", "!", "a", "@", "!", "b">>,
    <<" ", "a", " ", "@", " ", "!", " ", "b", " ">>, <<"a", "@", "@", "!", "b", "@">>,
    <<"a", "b", "@", "a", "b">>, <<"a", "@", "!", "b", "@", "a", "$">> }

Inputs == StrUpTo(MaxLen) \cup ExtraInputs

\* arguments handed to withAdditionalExclude
ArgNames == { <<>>, <<"a">>, <<"b">>, <<"a", "b">>, <<"$">>, <<"a", " ">>, <<"!", "a">>, <<"_">> }

----------------------------------------------------------------------------
(* StrView helpers *)

isWhiteSpace(c) == c \in {" ", "\t", "\n", "\r"}

LowerCase == {"a","b","c","d","e","f","g","h","i","j","k","l","m",
              "n","o","p","q","r","s","t","u","v","w","x","y","z"}
UpperCase == {"A","B","C","D","E","F","G","H","I","J","K","L","M",
              "N","O","P","Q","R","S","T","U","V","W","X","Y","Z"}
Digits    == {"0","1","2","3","4","5","6","7","8","9"}

isAlphaNumeric(c) == c \in LowerCase \cup UpperCase \cup Digits

RECURSIVE ltrimmed(_)
ltrimmed(s) ==
  IF s # <<>> /\ isWhiteSpace(Head(s)) THEN ltrimmed(Tail(s)) ELSE s

RECURSIVE rtrimmed(_)
rtrimmed(s) ==
  IF s # <<>> /\ isWhiteSpace(s[Len(s)])
  THEN rtrimmed(SubSeq(s, 1, Len(s) - 1)) ELSE s

\* StrView::trimmed
trimmed(s) == rtrimmed(ltrimmed(s))

\* StrView::startswith(char)
startswith(s, c) == s # <<>> /\ Head(s) = c

\* StrView::substr(n): everything from (0-based) position n
substr(s, n) == SubSeq(s, n + 1, Len(s))

\* the parts of s between the separators, empty parts included
RECURSIVE splitAll(_, _)
splitAll(s, sep) ==
  IF s = <<>> THEN << <<>> >>
  ELSE LET rest == splitAll(Tail(s), sep)
       IN  IF Head(s) = sep
           THEN << <<>> >> \o rest
           ELSE << <<Head(s)>> \o Head(rest) >> \o Tail(rest)

RECURSIVE trimmedNoEmpty(_)
trimmedNoEmpty(parts) ==
  IF parts = <<>> THEN <<>>
  ELSE LET p == trimmed(Head(parts))
       IN  IF p = <<>> THEN trimmedNoEmpty(Tail(parts))
           ELSE <<p>> \o trimmedNoEmpty(Tail(parts))

\* StrView::splitTrimmedNoEmpty(sep)
splitTrimmedNoEmpty(s, sep) == trimmedNoEmpty(splitAll(s, sep))

----------------------------------------------------------------------------
(* Error::BadInput *)

NoError == [kind |-> "none", names |-> <<>>]

BadInput(k, ns) == [kind |-> k, names |-> ns]

----------------------------------------------------------------------------
(* class FactNameRequest *)

\* a default-constructed FactNameRequest
EmptyRequest == [m_specific |-> <<>>, m_excluded |-> <<>>]

hasSpecificRequest(r) == r.m_specific # <<>>

specificRequest(r) == r.m_specific

excludes(r, fn) == \E i \in 1..Len(r.m_excluded) : fn = r.m_excluded[i]

RECURSIVE excludedToString(_, _)
excludedToString(res, excl) ==
  IF excl = <<>> THEN res
  ELSE excludedToString((IF res # <<>> THEN res \o <<"@">> ELSE res)
                          \o <<"!">> \o Head(excl),
                        Tail(excl))

\* FactNameRequest::to_string
to_string(r) == excludedToString(r.m_specific, r.m_excluded)

----------------------------------------------------------------------------
(* FactNameRequest::Parser::doParse *)

Return(r) == [ok |-> TRUE, val |-> r, err |-> NoError]

Throw(e) == [ok |-> FALSE, val |-> EmptyRequest, err |-> e]

\* checkValidFactoryName with the '-' left out of the accepted characters
checkValidFactoryName_NoDash(svn) ==
  /\ svn # <<>>
  /\ \A i \in 1..Len(svn) : isAlphaNumeric(svn[i]) \/ svn[i] = "_"

\* the lambda checkValidFactoryName: TRUE when it returns, FALSE when it
\* throws "Not a valid factory name"
checkValidFactoryName(svn) ==
  /\ svn # <<>>
  /\ \A i \in 1..Len(svn) :
        isAlphaNumeric(svn[i]) \/ svn[i] = "_" \/ svn[i] = "-"

\* doParseExcluded without the trimmed() after the '!' is removed
doParseExcluded_NoTrim(res, e) ==
  LET exlname == substr(e, 1)
  IN  IF ~checkValidFactoryName(exlname)
      THEN Throw(BadInput("NotAValidFactoryName", <<exlname>>))
      ELSE IF ~excludes(res, exlname)
           THEN Return([res EXCEPT !.m_excluded = Append(@, exlname)])
           ELSE Return(res)

\* doParseExcluded without the excludes() test before the push_back
doParseExcluded_AlwaysPush(res, e) ==
  LET exlname == trimmed(substr(e, 1))
  IN  IF ~checkValidFactoryName(exlname)
      THEN Throw(BadInput("NotAValidFactoryName", <<exlname>>))
      ELSE Return([res EXCEPT !.m_excluded = Append(@, exlname)])

\* doParseExcluded inserting the new name at the front of m_excluded
doParseExcluded_PushFront(res, e) ==
  LET exlname == trimmed(substr(e, 1))
  IN  IF ~checkValidFactoryName(exlname)
      THEN Throw(BadInput("NotAValidFactoryName", <<exlname>>))
      ELSE IF ~excludes(res, exlname)
           THEN Return([res EXCEPT !.m_excluded = <<exlname>> \o @])
           ELSE Return(res)

\* the loop body for an entry that starts with '!'; res is the request
\* built so far
doParseExcluded(res, e) ==
  LET exlname == trimmed(substr(e, 1))
  IN  IF ~checkValidFactoryName(exlname)
      THEN Throw(BadInput("NotAValidFactoryName", <<exlname>>))
      ELSE IF ~excludes(res, exlname)
           THEN Return([res EXCEPT !.m_excluded = Append(@, exlname)])
           ELSE Return(res)

\* doParsePlain without the throw on a second plain entry: the last one wins
doParsePlain_LastWins(res, e) ==
  IF ~checkValidFactoryName(e)
  THEN Throw(BadInput("NotAValidFactoryName", <<e>>))
  ELSE Return([res EXCEPT !.m_specific = e])

\* doParsePlain with m_specific.assign(e.data(), e.size() - 1)
doParsePlain_AssignShort(res, e) ==
  IF ~checkValidFactoryName(e)
  THEN Throw(BadInput("NotAValidFactoryName", <<e>>))
  ELSE IF res.m_specific # <<>>
       THEN Throw(BadInput("MoreThanOneNonNegatedEntry", <<res.m_specific, e>>))
       ELSE Return([res EXCEPT !.m_specific = SubSeq(e, 1, Len(e) - 1)])

\* the loop body for an entry that does not start with '!'
doParsePlain(res, e) ==
  IF ~checkValidFactoryName(e)
  THEN Throw(BadInput("NotAValidFactoryName", <<e>>))
  ELSE IF res.m_specific # <<>>
       THEN Throw(BadInput("MoreThanOneNonNegatedEntry", <<res.m_specific, e>>))
       ELSE Return([res EXCEPT !.m_specific = e])

\* one turn of the loop over the entries
doParseEntry(res, e) ==
  IF startswith(e, "!") THEN doParseExcluded(res, e) ELSE doParsePlain(res, e)

\* the loop over sv.splitTrimmedNoEmpty('@'); a throw ends it
RECURSIVE doParseLoop(_, _)
doParseLoop(res, entries) ==
  IF entries = <<>> THEN Return(res)
  ELSE LET step == doParseEntry(res, Head(entries))
       IN  IF step.ok THEN doParseLoop(step.val, Tail(entries)) ELSE step

\* doParse without the closing required-and-excluded test
doParse_NoFinalCheck(sv) ==
  doParseLoop(EmptyRequest, splitTrimmedNoEmpty(sv, "@"))

doParse(sv) ==
  LET looped == doParseLoop(EmptyRequest, splitTrimmedNoEmpty(sv, "@"))
  IN  IF ~looped.ok THEN looped
      ELSE LET res == looped.val
           IN  IF res.m_specific # <<>> /\ excludes(res, res.m_specific)
               THEN Throw(BadInput("BothRequiredAndExcluded", <<res.m_specific>>))
               ELSE Return(res)

----------------------------------------------------------------------------
(* the const update methods *)

\* withAdditionalExclude without the excludes() test
withAdditionalExclude_AlwaysAppend(this, factname) ==
  [this EXCEPT !.m_excluded = Append(@, factname)]

withAdditionalExclude(this, factname) ==
  IF excludes(this, factname) THEN this
  ELSE [this EXCEPT !.m_excluded = Append(@, factname)]

\* withNoSpecificRequest returning a copy of the receiver
withNoSpecificRequest_Copy(this) == this

withNoSpecificRequest(this) ==
  [EmptyRequest EXCEPT !.m_excluded = this.m_excluded]

----------------------------------------------------------------------------
(* str2val of the three factory variables *)

FactoryVars == {"infofactory", "scatfactory", "absnfactory"}

NoValue == [ok |-> TRUE, val |-> <<>>, var |-> "none", err |-> NoError]

\* try { return doParse(sv).to_string(); } catch (BadInput& err) { throw
\* BadInput("Syntax error in <name> parameter. Error is: " << err.what()) }
\* the exception of kind k naming the parameter var, whose message ends with
\* the message of the exception inner
BadInputWrapping(var, k, inner) ==
  [kind |-> k, names |-> inner.names, var |-> var, what |-> inner]

\* str2val of a factory variable without the try and catch
factory_str2val_NoCatch(name, sv) ==
  LET out == doParse(sv)
  IN  IF out.ok
      THEN [ok |-> TRUE, val |-> to_string(out.val), var |-> name, err |-> NoError]
      ELSE [ok |-> FALSE, val |-> <<>>, var |-> name,
            err |-> [kind |-> out.err.kind, names |-> out.err.names, var |-> "none",
                     what |-> NoError]]

factory_str2val(name, sv) ==
  LET out == doParse(sv)
  IN  IF out.ok
      THEN [ok |-> TRUE, val |-> to_string(out.val), var |-> name, err |-> NoError]
      ELSE [ok |-> FALSE, val |-> <<>>, var |-> name,
            err |-> BadInputWrapping(name, "SyntaxErrorInParameter", out.err)]

----------------------------------------------------------------------------
(* The state machine.                                                      *)
(*   pc     "start": nothing parsed yet; "live": ret is a FactNameRequest; *)
(*          "stored": stored is the value of a factory variable;           *)
(*          "thrown": the last call threw BadInput                         *)
(*   self   the receiver of the last method call, as it is after the call  *)
(*   ret    the object the last call returned                              *)
(*   call   the last call: operation, argument, the operation that made    *)
(*          its receiver, the receiver as it was before the call, and the  *)
(*          error the call threw                                           *)
(*   nops   calls made since the first one                                 *)
(*   stored the string a factory variable's str2val returned               *)

NoCall == [op |-> "none", arg |-> <<>>, from |-> "none", pre |-> EmptyRequest,
           err |-> NoError]

Init ==
  /\ pc = "start"
  /\ self = EmptyRequest
  /\ ret = EmptyRequest
  /\ call = NoCall
  /\ nops = 0
  /\ stored = NoValue

\* FactNameRequest::Parser::doParse(sv) on a string of the caller
DoParse(sv) ==
  /\ pc = "start"
  /\ LET out == doParse(sv)
     IN  /\ pc' = IF out.ok THEN "live" ELSE "thrown"
         /\ ret' = out.val
         /\ call' = [op |-> "doParse", arg |-> sv, from |-> "none",
                     pre |-> EmptyRequest, err |-> out.err]
  /\ UNCHANGED <<self, nops, stored>>

\* doParse( r.to_string() ) on the request r the last call returned
DoParseToString ==
  /\ pc = "live"
  /\ nops < MaxOps
  /\ LET sv  == to_string(ret)
         out == doParse(sv)
     IN  /\ pc' = IF out.ok THEN "live" ELSE "thrown"
         /\ ret' = out.val
         /\ call' = [op |-> "doParseToString", arg |-> sv, from |-> call.op,
                     pre |-> ret, err |-> out.err]
  /\ self' = ret
  /\ nops' = nops + 1
  /\ UNCHANGED stored

\* r.withAdditionalExclude(factname) on the request r the last call returned
WithAdditionalExclude(factname) ==
  /\ pc = "live"
  /\ nops < MaxOps
  /\ ret' = withAdditionalExclude(ret, factname)
  /\ self' = ret
  /\ call' = [op |-> "withAdditionalExclude", arg |-> factname, from |-> call.op,
              pre |-> ret, err |-> NoError]
  /\ nops' = nops + 1
  /\ UNCHANGED <<pc, stored>>

\* r.withNoSpecificRequest() on the request r the last call returned
WithNoSpecificRequest ==
  /\ pc = "live"
  /\ nops < MaxOps
  /\ ret' = withNoSpecificRequest(ret)
  /\ self' = ret
  /\ call' = [op |-> "withNoSpecificRequest", arg |-> <<>>, from |-> call.op,
              pre |-> ret, err |-> NoError]
  /\ nops' = nops + 1
  /\ UNCHANGED <<pc, stored>>

\* vardef_<name>::str2val(sv) on a string of the caller
Str2Val(name, sv) ==
  /\ pc = "start"
  /\ LET out == factory_str2val(name, sv)
     IN  /\ pc' = IF out.ok THEN "stored" ELSE "thrown"
         /\ stored' = out
         /\ call' = [op |-> "str2val", arg |-> sv, from |-> "none",
                     pre |-> EmptyRequest, err |-> out.err]
  /\ UNCHANGED <<self, ret, nops>>

\* vardef_<name>::str2val on the value the variable holds
Str2ValStored ==
  /\ pc = "stored"
  /\ nops < MaxOps
  /\ LET out == factory_str2val(stored.var, stored.val)
     IN  /\ pc' = IF out.ok THEN "stored" ELSE "thrown"
         /\ stored' = out
         /\ call' = [op |-> "str2valStored", arg |-> stored.val, from |-> call.op,
                     pre |-> EmptyRequest, err |-> out.err]
  /\ nops' = nops + 1
  /\ UNCHANGED <<self, ret>>

Next ==
  \/ pc = "start" /\ \E sv \in Inputs : DoParse(sv)
  \/ DoParseToString
  \/ \E factname \in ArgNames : WithAdditionalExclude(factname)
  \/ WithNoSpecificRequest
  \/ pc = "start" /\ \E name \in FactoryVars, sv \in Inputs : Str2Val(name, sv)
  \/ Str2ValStored

Spec == Init /\ [][Next]_vars

----------------------------------------------------------------------------
(* What the statements below say about an input string, written without    *)
(* the parser: the grammar of section 4.3.                                 *)

NameChars == LowerCase \cup UpperCase \cup Digits \cup {"_", "-"}

\* a name matching [A-Za-z0-9_-]+
ValidName(n) == n # <<>> /\ \A i \in 1..Len(n) : n[i] \in NameChars

SetOf(seq) == { seq[i] : i \in 1..Len(seq) }

NoDuplicates(seq) == \A i, j \in 1..Len(seq) : seq[i] = seq[j] => i = j

\* the '@'-separated pieces of sv, each trimmed; blank pieces included
RawEntries(sv) ==
  LET parts == splitAll(sv, "@")
  IN  [i \in 1..Len(parts) |-> trimmed(parts[i])]

IsBlank(e) == e = <<>>

IsNonBlank(e) == e # <<>>

\* the pieces that are not blank
EntriesOf(sv) == SelectSeq(RawEntries(sv), IsNonBlank)

IsNegated(e) == e # <<>> /\ e[1] = "!"

IsPlain(e) == e # <<>> /\ e[1] # "!"

\* the name an entry gives: what follows the '!', trimmed, or the entry
NameOf(e) == IF IsNegated(e) THEN trimmed(Tail(e)) ELSE e

PlainAt(sv) == { i \in 1..Len(EntriesOf(sv)) : IsPlain(EntriesOf(sv)[i]) }

PlainNames(sv) == { EntriesOf(sv)[i] : i \in PlainAt(sv) }

NegatedNames(sv) ==
  { NameOf(EntriesOf(sv)[i]) : i \in { j \in 1..Len(EntriesOf(sv)) : IsNegated(EntriesOf(sv)[j]) } }

AllNamesValid(sv) == \A i \in 1..Len(EntriesOf(sv)) : ValidName(NameOf(EntriesOf(sv)[i]))

\* the last call was a doParse, on a caller's string or on a rendering
IsParse == call.op \in {"doParse", "doParseToString"}

\* names on which excludes() is compared
ProbeNames == StrUpTo(2) \cup ArgNames

----------------------------------------------------------------------------
\* C1: after any sequence of doParse, withAdditionalExclude and
\* withNoSpecificRequest calls, a present specific request is never also
\* excluded: hasSpecificRequest() implies !excludes(specificRequest()).
C1_SpecificNeverExcluded ==
  pc = "live" =>
    (hasSpecificRequest(ret) => ~excludes(ret, specificRequest(ret)))

\* C2: an input of valid entries with at most one plain entry, whose name is
\* not also negated, parses; the result's specific request is the plain entry
\* (empty when there is none) and excludes(n) holds exactly for the names
\* given with a '!'; the empty input gives no specific request and no
\* exclusions.
C2_Precondition(sv) ==
  /\ AllNamesValid(sv)
  /\ Cardinality(PlainAt(sv)) <= 1
  /\ PlainNames(sv) \cap NegatedNames(sv) = {}

C2_ParseOfValidInput ==
  (IsParse /\ C2_Precondition(call.arg)) =>
    /\ pc = "live"
    /\ call.err = NoError
    /\ \/ PlainNames(call.arg) = {} /\ specificRequest(ret) = <<>>
          /\ ~hasSpecificRequest(ret)
       \/ PlainNames(call.arg) = {specificRequest(ret)}
    /\ \A n \in ProbeNames \cup NegatedNames(call.arg) :
          excludes(ret, n) <=> n \in NegatedNames(call.arg)
    /\ (call.arg = <<>> => ret = EmptyRequest)

\* a plain entry and two exclusions, one of them written with blanks
C2_Witness ==
  /\ call.op = "doParse"
  /\ C2_Precondition(call.arg)
  /\ pc = "live"
  /\ hasSpecificRequest(ret)
  /\ Len(ret.m_excluded) >= 1
  /\ \E i \in 1..Len(EntriesOf(call.arg)) :
        IsNegated(EntriesOf(call.arg)[i])
        /\ NameOf(EntriesOf(call.arg)[i]) # Tail(EntriesOf(call.arg)[i])

----------------------------------------------------------------------------
\* the positions of the first and of the second plain entry of sv
FirstPlainAt(sv) == CHOOSE i \in PlainAt(sv) : \A j \in PlainAt(sv) : i <= j

SecondPlainAt(sv) ==
  CHOOSE i \in PlainAt(sv) \ {FirstPlainAt(sv)} :
    \A j \in PlainAt(sv) \ {FirstPlainAt(sv)} : i <= j

HasSecondPlain(sv) == Cardinality(PlainAt(sv)) >= 2

\* every entry up to and including the second plain one gives a valid name
ValidUpToSecondPlain(sv) ==
  \A i \in 1..SecondPlainAt(sv) : ValidName(NameOf(EntriesOf(sv)[i]))

NamesBothPlainEntries(sv) ==
  /\ call.err.kind = "MoreThanOneNonNegatedEntry"
  /\ call.err.names = << EntriesOf(sv)[FirstPlainAt(sv)], EntriesOf(sv)[SecondPlainAt(sv)] >>

\* C3 as stated: doParse fails with BadInput whenever the input has a second
\* plain entry (the same name twice included), the message names the earlier
\* plain entry and the later one, and no request is returned.  (Stated here
\* for plain entries that are valid names.)
C3_SecondPlainNamesBoth ==
  (IsParse /\ HasSecondPlain(call.arg)
           /\ \A n \in PlainNames(call.arg) : ValidName(n)) =>
    /\ pc = "thrown"
    /\ ret = EmptyRequest
    /\ NamesBothPlainEntries(call.arg)

\* C3 amended: doParse fails with BadInput whenever the input has a second
\* plain entry and no request is returned; the message names both plain
\* entries when every entry up to and including the second plain one is a
\* valid name (an invalid name met first is reported instead).
C3_SecondPlainFails ==
  (IsParse /\ HasSecondPlain(call.arg)) =>
    /\ pc = "thrown"
    /\ ret = EmptyRequest
    /\ call.err.kind # "none"
    /\ ValidUpToSecondPlain(call.arg) => NamesBothPlainEntries(call.arg)
    /\ ~ValidUpToSecondPlain(call.arg) => call.err.kind = "NotAValidFactoryName"

\* the same plain name twice, reported as two conflicting entries
C3_Witness ==
  /\ call.op = "doParse"
  /\ HasSecondPlain(call.arg)
  /\ Cardinality(PlainNames(call.arg)) = 1
  /\ pc = "thrown"
  /\ NamesBothPlainEntries(call.arg)

----------------------------------------------------------------------------
\* a plain entry whose name is also given with a '!'
RequiredAlsoExcluded(sv) == PlainNames(sv) \cap NegatedNames(sv) # {}

\* C4: doParse fails with BadInput whenever the name of the plain entry also
\* occurs as a '!'-prefixed entry, in whichever order the two come.
C4_RequiredAndExcludedFails ==
  (IsParse /\ RequiredAlsoExcluded(call.arg)) =>
    /\ pc = "thrown"
    /\ call.err.kind # "none"
    /\ ret = EmptyRequest

\* the exclusion comes first and the plain entry of the same name after it
C4_Witness ==
  /\ call.op = "doParse"
  /\ RequiredAlsoExcluded(call.arg)
  /\ IsNegated(EntriesOf(call.arg)[1])
  /\ Len(EntriesOf(call.arg)) = 2
  /\ IsPlain(EntriesOf(call.arg)[2])
  /\ pc = "thrown"
  /\ call.err = BadInput("BothRequiredAndExcluded", <<EntriesOf(call.arg)[2]>>)

----------------------------------------------------------------------------
\* some name is given with a '!' by two entries of sv
RepeatedExclusion(sv) ==
  \E i, j \in 1..Len(EntriesOf(sv)) :
     /\ i < j
     /\ IsNegated(EntriesOf(sv)[i]) /\ IsNegated(EntriesOf(sv)[j])
     /\ NameOf(EntriesOf(sv)[i]) = NameOf(EntriesOf(sv)[j])

\* C5: excluding a name that is already excluded is a no-op and not an error,
\* for a repeated '!name' entry of doParse and for withAdditionalExclude; the
\* excluded list never holds the same name twice.
C5_ReExcludingIsNoOp ==
  /\ NoDuplicates(ret.m_excluded)
  /\ NoDuplicates(self.m_excluded)
  /\ (IsParse /\ RepeatedExclusion(call.arg) /\ C2_Precondition(call.arg)) =>
        /\ pc = "live"
        /\ SetOf(ret.m_excluded) = NegatedNames(call.arg)
  /\ (call.op = "withAdditionalExclude" /\ excludes(call.pre, call.arg)) =>
        /\ pc = "live"
        /\ ret = call.pre

\* doParse has met a repeated '!name' entry and returned a request
C5_Witness ==
  /\ call.op = "doParse"
  /\ RepeatedExclusion(call.arg)
  /\ pc = "live"
  /\ Len(ret.m_excluded) = 1

----------------------------------------------------------------------------
\* C6 as stated: every entry of the '@'-separated input must give a
\* non-empty name of characters [A-Za-z0-9_-]; an entry whose name is empty
\* or has another character makes the parse fail, and a name that satisfies
\* the rule is never rejected for its spelling.  (The empty input has no
\* entry.)
C6_EveryEntryMustBeAName ==
  (IsParse /\ call.arg # <<>>) =>
    /\ (\E i \in 1..Len(RawEntries(call.arg)) :
           ~ValidName(NameOf(RawEntries(call.arg)[i]))) => pc = "thrown"
    /\ call.err.kind = "NotAValidFactoryName" =>
          /\ Len(call.err.names) = 1
          /\ ~ValidName(call.err.names[1])

\* C6 amended: an entry that is blank after trimming is skipped; every other
\* entry must give a non-empty name of characters [A-Za-z0-9_-] (for an
\* exclusion: after removing the '!' and trimming again), otherwise the
\* parse fails with BadInput; a name that satisfies the rule is never
\* rejected for its spelling.
C6_NonBlankEntryMustBeAName ==
  IsParse =>
    /\ (\E i \in 1..Len(EntriesOf(call.arg)) :
           ~ValidName(NameOf(EntriesOf(call.arg)[i]))) =>
          /\ pc = "thrown"
          /\ call.err.kind # "none"
    /\ call.err.kind = "NotAValidFactoryName" =>
          /\ Len(call.err.names) = 1
          /\ ~ValidName(call.err.names[1])
          /\ \E i \in 1..Len(EntriesOf(call.arg)) :
                call.err.names[1] = NameOf(EntriesOf(call.arg)[i])
    /\ (AllNamesValid(call.arg) /\ \E i \in 1..Len(RawEntries(call.arg)) :
                                      IsBlank(RawEntries(call.arg)[i])) =>
          call.err.kind \in {"none", "MoreThanOneNonNegatedEntry", "BothRequiredAndExcluded"}

\* an exclusion whose name is empty once the '!' is removed: rejected
C6_Witness ==
  /\ call.op = "doParse"
  /\ \E i \in 1..Len(EntriesOf(call.arg)) :
        IsNegated(EntriesOf(call.arg)[i]) /\ NameOf(EntriesOf(call.arg)[i]) = <<>>
  /\ pc = "thrown"
  /\ call.err = BadInput("NotAValidFactoryName", << <<>> >>)

----------------------------------------------------------------------------
\* C7: for every request r that doParse returned, doParse(r.to_string())
\* succeeds and gives a request equal to r (same specific request, same set
\* of excluded names); str2val of a factory variable, applied to a value it
\* returned, returns that value.
C7_RenderAndReparse ==
  /\ (call.op = "doParseToString" /\ call.from \in {"doParse", "doParseToString"}) =>
        /\ pc = "live"
        /\ call.arg = to_string(call.pre)
        /\ specificRequest(ret) = specificRequest(call.pre)
        /\ hasSpecificRequest(ret) = hasSpecificRequest(call.pre)
        /\ SetOf(ret.m_excluded) = SetOf(call.pre.m_excluded)
  /\ call.op = "str2valStored" =>
        /\ pc = "stored"
        /\ stored.ok
        /\ stored.val = call.arg

\* a parsed request with a specific name and an exclusion, rendered and
\* parsed again
C7_Witness ==
  /\ call.op = "doParseToString"
  /\ call.from = "doParse"
  /\ hasSpecificRequest(call.pre)
  /\ Len(call.pre.m_excluded) >= 1
  /\ pc = "live"

----------------------------------------------------------------------------
\* C8: withNoSpecificRequest returns a request without specific request
\* whose excluded names are those of the receiver, leaves the receiver as it
\* was, and applied twice gives what it gives applied once.
C8_WithNoSpecificRequest ==
  call.op = "withNoSpecificRequest" =>
    /\ pc = "live"
    /\ ~hasSpecificRequest(ret)
    /\ specificRequest(ret) = <<>>
    /\ ret.m_excluded = call.pre.m_excluded
    /\ \A n \in ProbeNames : excludes(ret, n) <=> excludes(call.pre, n)
    /\ self = call.pre
    /\ call.from = "withNoSpecificRequest" => ret = call.pre

\* the receiver had a specific request and an exclusion
C8_Witness ==
  /\ call.op = "withNoSpecificRequest"
  /\ hasSpecificRequest(call.pre)
  /\ Len(call.pre.m_excluded) >= 1
  /\ ~hasSpecificRequest(ret)

----------------------------------------------------------------------------
----------------------------------------------------------------------------
\* C10: withAdditionalExclude throws BadInput when its argument is empty or
\* has a character outside [A-Za-z0-9_-], so that no FactNameRequest ever
\* holds an excluded name that doParse would reject.
C10_ExcludedNamesAreValid ==
  /\ (call.op = "withAdditionalExclude" /\ ~ValidName(call.arg)) =>
        pc = "thrown" /\ call.err.kind # "none"
  /\ pc = "live" => \A i \in 1..Len(ret.m_excluded) : ValidName(ret.m_excluded[i])

----------------------------------------------------------------------------
\* the names in seq, each at the place of its first occurrence
RECURSIVE FirstOccurrences(_)
FirstOccurrences(seq) ==
  IF seq = <<>> THEN <<>>
  ELSE LET front == FirstOccurrences(SubSeq(seq, 1, Len(seq) - 1))
           last  == seq[Len(seq)]
       IN  IF last \in SetOf(front) THEN front ELSE Append(front, last)

\* the names sv gives with a '!', in the order of the entries
NegatedNamesInOrder(sv) ==
  LET negs == SelectSeq(EntriesOf(sv), IsNegated)
  IN  [i \in 1..Len(negs) |-> NameOf(negs[i])]

\* the rendering of section 6: the specific name, then every excluded name
\* with a '!', in the order given, with '@' between the parts
RECURSIVE RenderExcluded(_)
RenderExcluded(names) ==
  IF names = <<>> THEN <<>>
  ELSE <<"!">> \o Head(names)
       \o (IF Tail(names) = <<>> THEN <<>> ELSE <<"@">> \o RenderExcluded(Tail(names)))

RenderRequest(spec, names) ==
  IF spec = <<>> THEN RenderExcluded(names)
  ELSE IF names = <<>> THEN spec
  ELSE spec \o <<"@">> \o RenderExcluded(names)

\* the plain name of sv, empty when it has none
ThePlainName(sv) ==
  IF PlainNames(sv) = {} THEN <<>> ELSE CHOOSE n \in PlainNames(sv) : TRUE

----------------------------------------------------------------------------
(* vardef_atomdb::str2val *)

\* Error::BadInput whose message names the cfg parameter
BadInputIn(var, k, ns) == [kind |-> k, names |-> ns, var |-> var]

\* strreplace(line, ":", " ") for one-character patterns
strreplace(line, old, new) ==
  [i \in 1..Len(line) |-> IF line[i] = old THEN new ELSE line[i]]

\* the parts of s between runs of whitespace, none of them empty
RECURSIVE split(_)
split(s) ==
  LET t == ltrimmed(s)
  IN  IF t = <<>> THEN <<>>
      ELSE LET n == CHOOSE k \in 1..Len(t) :
                       /\ \A i \in 1..k : ~isWhiteSpace(t[i])
                       /\ k = Len(t) \/ isWhiteSpace(t[k + 1])
           IN  <<SubSeq(t, 1, n)>> \o split(SubSeq(t, n + 1, Len(t)))

\* joinstr(parts, sep)
RECURSIVE joinstr(_, _)
joinstr(parts, sep) ==
  IF parts = <<>> THEN <<>>
  ELSE IF Len(parts) = 1 THEN parts[1]
  ELSE parts[1] \o sep \o joinstr(Tail(parts), sep)

\* split2(str, 0, sep): every part between the separators
split2(str, sep) == splitAll(str, sep)

W_nodefaults == <<"n", "o", "d", "e", "f", "a", "u", "l", "t", "s">>

W_is == <<"i", "s">>

ElementNames == { <<"H">>, <<"D">>, <<"A", "l">> }

\* validateAtomDBLine(words): TRUE when it returns, FALSE when it throws.
\* Of the @ATOMDB line grammar: the "nodefaults" line and the lines
\* "<name> is <name>".
validateAtomDBLine(words) ==
  \/ words = <<W_nodefaults>>
  \/ /\ Len(words) = 3
     /\ words[1] \in ElementNames
     /\ words[2] = W_is
     /\ words[3] \in ElementNames

\* the BadInput validateAtomDBLine(words) throws
validateAtomDBLineError(words) == BadInput("validateAtomDBLine", words)

\* the exception of vardef_atomdb::str2val quoting the line part_joined and
\* ending with the message of the exception inner
InvalidEntryInLine(part_joined, inner) ==
  [kind |-> "InvalidEntryInLine", names |-> <<part_joined>>, var |-> "atomdb",
   what |-> inner]

AtomDbReturn(result) == [ok |-> TRUE, val |-> result, var |-> "atomdb", err |-> NoError]

AtomDbThrow(e) == [ok |-> FALSE, val |-> <<>>, var |-> "atomdb", err |-> e]

\* atomdbLine without the test that "nodefaults" is the first line
atomdbLine_NoNodefaultsTest(result, line_sv) ==
  LET line        == strreplace(line_sv, ":", " ")
      parts       == split(line)
      part_joined == joinstr(parts, <<":">>)
  IN  IF parts = <<>> THEN AtomDbReturn(result)
      ELSE IF ~validateAtomDBLine(split2(part_joined, ":"))
      THEN AtomDbThrow(InvalidEntryInLine(part_joined,
             validateAtomDBLineError(split2(part_joined, ":"))))
      ELSE AtomDbReturn((IF result # <<>> THEN result \o <<"@">> ELSE result)
                          \o part_joined)

\* atomdbLine joining the fields with a blank instead of a ':'
atomdbLine_JoinWithBlank(result, line_sv) ==
  LET line        == strreplace(line_sv, ":", " ")
      parts       == split(line)
      part_joined == joinstr(parts, <<" ">>)
  IN  IF parts = <<>> THEN AtomDbReturn(result)
      ELSE IF ~validateAtomDBLine(split2(part_joined, " "))
      THEN AtomDbThrow(InvalidEntryInLine(part_joined,
             validateAtomDBLineError(split2(part_joined, " "))))
      ELSE IF part_joined = W_nodefaults /\ result # <<>>
      THEN AtomDbThrow(BadInputIn("atomdb", "NodefaultsMustBeFirstLine", <<>>))
      ELSE AtomDbReturn((IF result # <<>> THEN result \o <<"@">> ELSE result)
                          \o part_joined)

\* atomdbLine quoting the line as it was written, not the normalized one
atomdbLine_QuotesRawLine(result, line_sv) ==
  LET line        == strreplace(line_sv, ":", " ")
      parts       == split(line)
      part_joined == joinstr(parts, <<":">>)
  IN  IF parts = <<>> THEN AtomDbReturn(result)
      ELSE IF ~validateAtomDBLine(split2(part_joined, ":"))
      THEN AtomDbThrow(InvalidEntryInLine(line_sv,
             validateAtomDBLineError(split2(part_joined, ":"))))
      ELSE IF part_joined = W_nodefaults /\ result # <<>>
      THEN AtomDbThrow(BadInputIn("atomdb", "NodefaultsMustBeFirstLine", <<>>))
      ELSE AtomDbReturn((IF result # <<>> THEN result \o <<"@">> ELSE result)
                          \o part_joined)

\* one turn of the loop over the lines: result is the output built so far
\* atomdbLine without the test for a line without fields
atomdbLine_NoEmptyTest(result, line_sv) ==
  LET line        == strreplace(line_sv, ":", " ")
      parts       == split(line)
      part_joined == joinstr(parts, <<":">>)
  IN  IF ~validateAtomDBLine(split2(part_joined, ":"))
      THEN AtomDbThrow(InvalidEntryInLine(part_joined,
             validateAtomDBLineError(split2(part_joined, ":"))))
      ELSE IF part_joined = W_nodefaults /\ result # <<>>
      THEN AtomDbThrow(BadInputIn("atomdb", "NodefaultsMustBeFirstLine", <<>>))
      ELSE AtomDbReturn((IF result # <<>> THEN result \o <<"@">> ELSE result)
                          \o part_joined)

atomdbLine(result, line_sv) ==
  LET line        == strreplace(line_sv, ":", " ")
      parts       == split(line)
      part_joined == joinstr(parts, <<":">>)
  IN  IF parts = <<>> THEN AtomDbReturn(result)
      ELSE IF ~validateAtomDBLine(split2(part_joined, ":"))
      THEN AtomDbThrow(InvalidEntryInLine(part_joined,
             validateAtomDBLineError(split2(part_joined, ":"))))
      ELSE IF part_joined = W_nodefaults /\ result # <<>>
      THEN AtomDbThrow(BadInputIn("atomdb", "NodefaultsMustBeFirstLine", <<>>))
      ELSE AtomDbReturn((IF result # <<>> THEN result \o <<"@">> ELSE result)
                          \o part_joined)

RECURSIVE atomdbLoop(_, _)
atomdbLoop(result, lines) ==
  IF lines = <<>> THEN AtomDbReturn(result)
  ELSE LET step == atomdbLine(result, Head(lines))
       IN  IF step.ok THEN atomdbLoop(step.val, Tail(lines)) ELSE step

atomdb_str2val(sv) == atomdbLoop(<<>>, splitTrimmedNoEmpty(sv, "@"))

----------------------------------------------------------------------------
(* The strings handed to vardef_atomdb::str2val: lines of fields, written   *)
(* with different separators, joined by '@'.                               *)

\* most lines of one input
MaxLines == 2

FieldLines ==
  { <<>>, <<W_nodefaults>>, << <<"H">>, W_is, <<"H">> >>, << <<"D">>, W_is, <<"H">> >>,
    << <<"H">>, W_is >> }

\* how a line is written: what precedes the first field, what separates two
\* fields, what follows the last one
Styles ==
  { [lead |-> <<>>,    sep |-> <<" ">>,      trail |-> <<>>],
    [lead |-> <<>>,    sep |-> <<":">>,      trail |-> <<>>],
    [lead |-> <<" ">>, sep |-> <<" ", " ">>, trail |-> <<" ">>],
    [lead |-> <<":">>, sep |-> <<" ", ":">>, trail |-> <<":", " ">>] }

WrittenLine(fields, style) == style.lead \o joinstr(fields, style.sep) \o style.trail

LinePool ==
  { [fields |-> f, text |-> WrittenLine(f, st)] : f \in FieldLines, st \in Styles }

\* three lines: a valid one, "nodefaults", and an invalid one
ExtraAtomDbInputs ==
  { << [fields |-> << <<"H">>, W_is, <<"H">> >>, text |-> <<"H", ":", "i", "s", " ", "H">>],
       [fields |-> <<W_nodefaults>>, text |-> W_nodefaults],
       [fields |-> << <<"H">>, W_is >>, text |-> <<"H", " ", "i", "s">>] >>,
    << [fields |-> <<W_nodefaults>>, text |-> W_nodefaults],
       [fields |-> << <<"D">>, W_is, <<"H">> >>, text |-> <<"D", " ", "i", "s", " ", "H">>],
       [fields |-> << <<"H">>, W_is, <<"H">> >>, text |-> <<"H", ":", "i", "s", ":", "H">>] >> }

AtomDbInputs == UNION { [1..k -> LinePool] : k \in 0..MaxLines } \cup ExtraAtomDbInputs

TextOf(ls) == joinstr([i \in 1..Len(ls) |-> ls[i].text], <<"@">>)

FieldsOf(ls) == [i \in 1..Len(ls) |-> ls[i].fields]

\* vardef_atomdb::str2val(sv) on a string of the caller, written from the
\* lines ls
AtomDbStr2Val(ls) ==
  /\ pc = "start"
  /\ LET out == atomdb_str2val(TextOf(ls))
     IN  /\ pc' = IF out.ok THEN "stored" ELSE "thrown"
         /\ stored' = out
         /\ call' = [op |-> "atomdb_str2val", arg |-> TextOf(ls), fields |-> FieldsOf(ls),
                     from |-> "none", pre |-> EmptyRequest, err |-> out.err]
  /\ UNCHANGED <<self, ret, nops>>

\* vardef_atomdb::str2val on the value the variable holds
AtomDbStr2ValStored ==
  /\ pc = "stored"
  /\ nops < MaxOps
  /\ LET out == atomdb_str2val(stored.val)
     IN  /\ pc' = IF out.ok THEN "stored" ELSE "thrown"
         /\ stored' = out
         /\ call' = [op |-> "atomdb_str2valStored", arg |-> stored.val,
                     fields |-> call.fields, from |-> call.op, pre |-> EmptyRequest,
                     err |-> out.err]
  /\ nops' = nops + 1
  /\ UNCHANGED <<self, ret>>

NextAtomDb ==
  \/ pc = "start" /\ \E ls \in AtomDbInputs : AtomDbStr2Val(ls)
  \/ AtomDbStr2ValStored

SpecAtomDb == Init /\ [][NextAtomDb]_vars

----------------------------------------------------------------------------
(* What the statements below say about the lines of an atomdb input,       *)
(* written on the fields the lines were made of.                           *)

IsAtomDb == call.op \in {"atomdb_str2val", "atomdb_str2valStored"}

\* the lines that have a field
LinesOf(c) == SelectSeq(c.fields, IsNonBlank)

IsNodefaults(fields) == fields = <<W_nodefaults>>

\* the fields of a line, joined by one ':'
CanonLine(fields) == joinstr(fields, <<":">>)

\* the lines, each canonical, joined by one '@'
CanonText(lines) == joinstr([i \in 1..Len(lines) |-> CanonLine(lines[i])], <<"@">>)

\* line i does not follow the line grammar
BadLineAt(lines, i) == ~validateAtomDBLine(lines[i])

\* line i is a "nodefaults" line that is not the first line
MisplacedAt(lines, i) == i > 1 /\ IsNodefaults(lines[i])

\* the first line that is bad or misplaced; 0 when there is none
FirstOffence(lines) ==
  IF \E i \in 1..Len(lines) : BadLineAt(lines, i) \/ MisplacedAt(lines, i)
  THEN CHOOSE i \in 1..Len(lines) :
         /\ BadLineAt(lines, i) \/ MisplacedAt(lines, i)
         /\ \A j \in 1..(i - 1) : ~BadLineAt(lines, j) /\ ~MisplacedAt(lines, j)
  ELSE 0

\* C12: a line that normalizes to the single token "nodefaults" is accepted
\* only as the first line contributing to the output; after a non-empty line
\* the call fails with BadInput.
C12_NodefaultsOnlyFirst ==
  IsAtomDb =>
    LET lines == LinesOf(call)
    IN  /\ (\E i \in 1..Len(lines) : MisplacedAt(lines, i)) =>
              /\ pc = "thrown"
              /\ ~stored.ok
              /\ stored.val = <<>>
              /\ stored.err.kind # "none"
        /\ (FirstOffence(lines) > 0 /\ ~BadLineAt(lines, FirstOffence(lines))) =>
              stored.err = BadInputIn("atomdb", "NodefaultsMustBeFirstLine", <<>>)
        /\ (Len(lines) >= 1 /\ IsNodefaults(lines[1]) /\ FirstOffence(lines) = 0) =>
              /\ pc = "stored"
              /\ stored.ok
              /\ SubSeq(stored.val, 1, Len(W_nodefaults)) = W_nodefaults

\* "nodefaults" written with blanks and ':' around it, after a blank line,
\* and followed by a second line: accepted
C12_Witness ==
  /\ call.op = "atomdb_str2val"
  /\ Len(call.fields) = 2
  /\ IsNodefaults(call.fields[1])
  /\ call.fields[2] = << <<"H">>, W_is, <<"H">> >>
  /\ SubSeq(call.arg, 1, Len(W_nodefaults)) # W_nodefaults
  /\ stored.ok
  /\ stored.val = W_nodefaults \o <<"@", "H", ":", "i", "s", ":", "H">>

\* C13: ':' inside a line counts as whitespace and whitespace is collapsed:
\* inputs whose lines have the same fields, however separated and padded,
\* give the same result, in which the fields of a line are joined by one ':'
\* and the lines by one '@'.
C13_SeparatorsNormalized ==
  IsAtomDb =>
    LET lines == LinesOf(call)
        k     == FirstOffence(lines)
    IN  /\ stored.ok <=> k = 0
        /\ stored.ok => stored.val = CanonText(lines)
        /\ (k > 0 /\ BadLineAt(lines, k)) =>
              stored.err = InvalidEntryInLine(CanonLine(lines[k]),
                                              validateAtomDBLineError(lines[k]))
        /\ (k > 0 /\ ~BadLineAt(lines, k)) =>
              stored.err = BadInputIn("atomdb", "NodefaultsMustBeFirstLine", <<>>)

\* two lines written with ':' and with runs of blanks
C13_Witness ==
  /\ call.op = "atomdb_str2val"
  /\ Len(LinesOf(call)) = 2
  /\ \E i \in 1..(Len(call.arg) - 1) : call.arg[i] = " " /\ call.arg[i + 1] = ":"
  /\ \E i \in 1..(Len(call.arg) - 1) : call.arg[i] = " " /\ call.arg[i + 1] = " "
  /\ stored.ok
  /\ stored.val # call.arg
  /\ stored.val = CanonText(LinesOf(call))

----------------------------------------------------------------------------
(* Numbers. A double is written by the name of its value; the names below  *)
(* are the literals of the validators and values below, between and above  *)
(* them, in increasing order. The two zeros are different doubles that     *)
(* compare equal. "nan" is not ordered: every comparison with it is false  *)
(* and it differs from everything, itself included.                        *)

DblOrder ==
  << {"-inf"}, {"-2"}, {"-1"}, {"-0.5"}, {"-0", "0"}, {"1e-8"}, {"1e-7"}, {"1e-4"},
     {"0.001"}, {"0.01"}, {"0.1"}, {"0.4"}, {"1"}, {"pi/2"}, {"2"}, {"pi"}, {"5"},
     {"293.15"}, {"1e5"}, {"2e5"}, {"1e6"}, {"2e6"}, {"inf"} >>

NaN == "nan"

Doubles == (UNION { DblOrder[i] : i \in 1..Len(DblOrder) }) \cup {NaN}

DblRank(x) == CHOOSE i \in 1..Len(DblOrder) : x \in DblOrder[i]

DblOrdered(x, y) == x # NaN /\ y # NaN

\* x < y, x <= y, x > y, x >= y, x == y on doubles
DblLt(x, y) == DblOrdered(x, y) /\ DblRank(x) < DblRank(y)

DblLe(x, y) == DblOrdered(x, y) /\ DblRank(x) <= DblRank(y)

DblGt(x, y) == DblLt(y, x)

DblGe(x, y) == DblLe(y, x)

DblEq(x, y) == DblOrdered(x, y) /\ DblRank(x) = DblRank(y)

kPiHalf == "pi/2"

kPi == "pi"

kInfinity == "inf"

(* A 64-bit integer is written by its decimal digits; the values are the   *)
(* literals of the validators, their neighbours, the ends of the 32-bit    *)
(* range and the ends of the 64-bit range, in increasing order.            *)

IntOrder ==
  << "-9223372036854775808", "-4000000001", "-4000000000", "-3999999999",
     "-2147483649", "-2147483648", "-6", "-1", "0", "1", "2", "3", "4", "5", "6",
     "2147483647", "2147483648", "3999999999", "4000000000", "4000000001",
     "9223372036854775807" >>

Int64s == { IntOrder[i] : i \in 1..Len(IntOrder) }

IntRank(x) == CHOOSE i \in 1..Len(IntOrder) : IntOrder[i] = x

IntLt(x, y) == IntRank(x) < IntRank(y)

IntGt(x, y) == IntLt(y, x)

\* what value_validate hands back: the value, or the exception with the text
\* of its message after the parameter name and the values the text quotes
ValReturn(var, value) == [ok |-> TRUE, val |-> value, var |-> var, err |-> NoError]

ValThrow(var, msg, quoted) ==
  [ok |-> FALSE, val |-> "novalue", var |-> var, err |-> BadInputIn(var, msg, quoted)]

----------------------------------------------------------------------------
(* The numeric validators, vardef_<name>::value_validate.                  *)

Msg_temp == "Out of range temperature value (valid temperatures must be in the range 0.001K .. 1000000K)"

Msg_nonneg == "must be >=0.0"

Msg_dcutoff == "must be 0 (for automatic selection), or in range [1e-3,1e5] (Aa)"

Msg_mos == "must be in range (0.0,pi/2]"

Msg_dirtol == "must be in range (0.0,pi]"

Msg_mosprec == "must be in range [1e-7,1e-1]"

Msg_vdoslux == "must be an integral value from 0 to 5"

Msg_lcmode == "must be an integral value from -4000000000 to 4000000000"

\* vardef_temp::value_validate without the special value -1.0
vardef_temp_value_validate_NoSentinel(value) ==
  IF ~(DblGe(value, "0.001") /\ DblLe(value, "1e6"))
  THEN ValThrow("temp", Msg_temp, <<value>>)
  ELSE ValReturn("temp", value)

vardef_temp_value_validate(value) ==
  IF ~(DblEq(value, "-1") \/ (DblGe(value, "0.001") /\ DblLe(value, "1e6")))
  THEN ValThrow("temp", Msg_temp, <<value>>)
  ELSE ValReturn("temp", value)

\* vardef_dcutoff::value_validate handing the special values back as they are
vardef_dcutoff_value_validate_NoRemap(value) ==
  IF DblEq(value, "-1") \/ DblEq(value, "0") THEN ValReturn("dcutoff", value)
  ELSE IF ~DblGt(value, "0") THEN ValThrow("dcutoff", Msg_nonneg, <<>>)
  ELSE IF ~(DblGe(value, "0.001") /\ DblLe(value, "1e5"))
  THEN ValThrow("dcutoff", Msg_dcutoff, <<>>)
  ELSE ValReturn("dcutoff", value)

vardef_dcutoff_value_validate(value) ==
  IF DblEq(value, "-1") \/ DblEq(value, "0") THEN ValReturn("dcutoff", "0")
  ELSE IF ~DblGt(value, "0") THEN ValThrow("dcutoff", Msg_nonneg, <<>>)
  ELSE IF ~(DblGe(value, "0.001") /\ DblLe(value, "1e5"))
  THEN ValThrow("dcutoff", Msg_dcutoff, <<>>)
  ELSE ValReturn("dcutoff", value)

\* vardef_dcutoffup::value_validate rejecting infinity
vardef_dcutoffup_value_validate_Finite(value) ==
  IF ~DblGe(value, "0") \/ DblEq(value, kInfinity)
  THEN ValThrow("dcutoffup", Msg_nonneg, <<>>)
  ELSE ValReturn("dcutoffup", value)

vardef_dcutoffup_value_validate(value) ==
  IF ~DblGe(value, "0") THEN ValThrow("dcutoffup", Msg_nonneg, <<>>)
  ELSE ValReturn("dcutoffup", value)

\* vardef_sccutoff::value_validate with the remapping of dcutoff
vardef_sccutoff_value_validate_Remaps(value) ==
  IF DblEq(value, "-1") THEN ValReturn("sccutoff", "0")
  ELSE IF ~DblGe(value, "0") THEN ValThrow("sccutoff", Msg_nonneg, <<>>)
  ELSE ValReturn("sccutoff", value)

vardef_sccutoff_value_validate(value) ==
  IF ~DblGe(value, "0") THEN ValThrow("sccutoff", Msg_nonneg, <<>>)
  ELSE ValReturn("sccutoff", value)

\* vardef_mos::value_validate with pi/2 out of the range
vardef_mos_value_validate_OpenAtPiHalf(value) ==
  IF ~DblGt(value, "0") \/ DblGe(value, kPiHalf) THEN ValThrow("mos", Msg_mos, <<>>)
  ELSE ValReturn("mos", value)

vardef_mos_value_validate(value) ==
  IF ~DblGt(value, "0") \/ DblGt(value, kPiHalf) THEN ValThrow("mos", Msg_mos, <<>>)
  ELSE ValReturn("mos", value)

vardef_dirtol_value_validate(value) ==
  IF ~(DblGt(value, "0") /\ DblLe(value, kPi)) THEN ValThrow("dirtol", Msg_dirtol, <<>>)
  ELSE ValReturn("dirtol", value)

vardef_mosprec_value_validate(value) ==
  IF ~DblGe(value, "1e-7") \/ DblGt(value, "0.1")
  THEN ValThrow("mosprec", Msg_mosprec, <<>>)
  ELSE ValReturn("mosprec", value)

vardef_vdoslux_value_validate(value) ==
  IF IntLt(value, "0") \/ IntGt(value, "5") THEN ValThrow("vdoslux", Msg_vdoslux, <<>>)
  ELSE ValReturn("vdoslux", value)

lcmode_a == "4000000000"

lcmode_b == "-4000000000"

\* vardef_lcmode::value_validate with bounds that fit 32 bits
vardef_lcmode_value_validate_Int32(value) ==
  IF IntLt(value, "-2147483648") \/ IntGt(value, "2147483647")
  THEN ValThrow("lcmode", Msg_lcmode, <<>>)
  ELSE ValReturn("lcmode", value)

vardef_lcmode_value_validate(value) ==
  IF IntLt(value, lcmode_b) \/ IntGt(value, lcmode_a)
  THEN ValThrow("lcmode", Msg_lcmode, <<>>)
  ELSE ValReturn("lcmode", value)

DblVars == {"temp", "dcutoff", "dcutoffup", "sccutoff", "mos", "dirtol", "mosprec"}

IntVars == {"vdoslux", "lcmode"}

NumVars == DblVars \cup IntVars

\* the values a variable's value_validate can be handed
ValuesOf(var) == IF var \in DblVars THEN Doubles ELSE Int64s

value_validate(var, value) ==
  CASE var = "temp"      -> vardef_temp_value_validate(value)
    [] var = "dcutoff"   -> vardef_dcutoff_value_validate(value)
    [] var = "dcutoffup" -> vardef_dcutoffup_value_validate(value)
    [] var = "sccutoff"  -> vardef_sccutoff_value_validate(value)
    [] var = "mos"       -> vardef_mos_value_validate(value)
    [] var = "dirtol"    -> vardef_dirtol_value_validate(value)
    [] var = "mosprec"   -> vardef_mosprec_value_validate(value)
    [] var = "vdoslux"   -> vardef_vdoslux_value_validate(value)
    [] var = "lcmode"    -> vardef_lcmode_value_validate(value)

\* vardef_<var>::value_validate(value) on a number of the caller
ValueValidate(var, value) ==
  /\ pc = "start"
  /\ LET out == value_validate(var, value)
     IN  /\ pc' = IF out.ok THEN "stored" ELSE "thrown"
         /\ stored' = out
         /\ call' = [op |-> "value_validate", arg |-> value, var |-> var,
                     from |-> "none", pre |-> EmptyRequest, err |-> out.err]
  /\ UNCHANGED <<self, ret, nops>>

\* vardef_<var>::value_validate on the value the variable holds
ValueValidateStored ==
  /\ pc = "stored"
  /\ nops < MaxOps
  /\ LET out == value_validate(stored.var, stored.val)
     IN  /\ pc' = IF out.ok THEN "stored" ELSE "thrown"
         /\ stored' = out
         /\ call' = [op |-> "value_validateStored", arg |-> stored.val,
                     var |-> stored.var, from |-> call.op, pre |-> EmptyRequest,
                     err |-> out.err]
  /\ nops' = nops + 1
  /\ UNCHANGED <<self, ret>>

NextNum ==
  \/ pc = "start" /\ \E var \in NumVars : \E value \in ValuesOf(var) : ValueValidate(var, value)
  \/ ValueValidateStored

SpecNum == Init /\ [][NextNum]_vars

----------------------------------------------------------------------------
(* What the statements below say about a number and a variable: the range  *)
(* each variable declares in the message of its validator.                 *)

DeclaredRange(var) ==
  CASE var = "temp"      -> [lo |-> "0.001", hi |-> "1e6"]
    [] var = "dcutoff"   -> [lo |-> "0.001", hi |-> "1e5"]
    [] var = "dcutoffup" -> [lo |-> "0", hi |-> "inf"]
    [] var = "sccutoff"  -> [lo |-> "0", hi |-> "inf"]
    [] var = "mos"       -> [lo |-> "0", hi |-> "pi/2"]
    [] var = "dirtol"    -> [lo |-> "0", hi |-> "pi"]
    [] var = "mosprec"   -> [lo |-> "1e-7", hi |-> "0.1"]
    [] var = "vdoslux"   -> [lo |-> "0", hi |-> "5"]
    [] var = "lcmode"    -> [lo |-> "-4000000000", hi |-> "4000000000"]

NumLt(var, x, y) == IF var \in DblVars THEN DblLt(x, y) ELSE IntLt(x, y)

StrictlyInside(var, v) ==
  NumLt(var, DeclaredRange(var).lo, v) /\ NumLt(var, v, DeclaredRange(var).hi)

StrictlyOutside(var, v) ==
  NumLt(var, v, DeclaredRange(var).lo) \/ NumLt(var, DeclaredRange(var).hi, v)

IsValidate == call.op \in {"value_validate", "value_validateStored"}

\* the call returned its argument
Accepted == pc = "stored" /\ stored.ok /\ stored.var = call.var /\ stored.val = call.arg

\* the call threw BadInput with the message msg
RejectedWith(msg) ==
  /\ pc = "thrown"
  /\ ~stored.ok
  /\ stored.err.var = call.var
  /\ stored.err.kind = msg

Rejected == pc = "thrown" /\ ~stored.ok /\ stored.err # NoError /\ stored.err.var = call.var

\* the values outside the declared range that a validator lets through
Sentinel(var, v) ==
  \/ var = "temp" /\ v = "-1"
  \/ var = "dcutoff" /\ v \in {"-1", "-0", "0"}

\* C15 as stated: for every variable with a declared numeric range, a value
\* strictly inside the range is accepted by value_validate and a value
\* strictly outside the range fails with BadInput.
C15_OutsideAlwaysRejected ==
  IsValidate =>
    /\ StrictlyInside(call.var, call.arg) => stored.ok
    /\ StrictlyOutside(call.var, call.arg) => Rejected

\* C15: a value strictly inside the declared range is accepted; a value
\* strictly outside it fails with BadInput, except -1 for temp and -1 and 0
\* for dcutoff, which are outside the range and accepted.
C15_OutsideRejectedButSentinels ==
  IsValidate =>
    /\ StrictlyInside(call.var, call.arg) => Accepted
    /\ StrictlyOutside(call.var, call.arg) /\ ~Sentinel(call.var, call.arg) => Rejected
    /\ Sentinel(call.var, call.arg) =>
         StrictlyOutside(call.var, call.arg) /\ stored.ok /\ pc = "stored"

C15_Witness ==
  /\ call.op = "value_validate"
  /\ call.var = "temp"
  /\ call.arg = "-1"
  /\ StrictlyOutside("temp", "-1")
  /\ Accepted

\* C16: the ends of the ranges: temp accepts 0.001 and 1e6; mos accepts pi/2
\* and rejects 0 with the message naming (0.0,pi/2]; dirtol accepts pi and
\* rejects 0 with the message naming (0.0,pi]; mosprec accepts 1e-7 and 1e-1;
\* dcutoff accepts 1e-3 and 1e5 and rejects every value strictly between 0
\* and 1e-3.
C16_BoundaryPolicy ==
  IsValidate =>
    /\ call.var = "temp" /\ call.arg \in {"0.001", "1e6"} => Accepted
    /\ call.var = "mos" /\ call.arg = kPiHalf => Accepted
    /\ call.var = "mos" /\ call.arg \in {"0", "-0"} => RejectedWith(Msg_mos)
    /\ call.var = "dirtol" /\ call.arg = kPi => Accepted
    /\ call.var = "dirtol" /\ call.arg \in {"0", "-0"} => RejectedWith(Msg_dirtol)
    /\ call.var = "mosprec" /\ call.arg \in {"1e-7", "0.1"} => Accepted
    /\ call.var = "dcutoff" /\ call.arg \in {"0.001", "1e5"} => Accepted
    /\ call.var = "dcutoff" /\ DblGt(call.arg, "0") /\ DblLt(call.arg, "0.001")
         => RejectedWith(Msg_dcutoff)

C16_Witness ==
  /\ call.op = "value_validate"
  /\ call.var = "mos"
  /\ call.arg = kPiHalf
  /\ Accepted

\* C17: vardef_dcutoff::value_validate returns 0 for the input -1 and for the
\* input 0, and throws for neither.
C17_LegacyRemapping ==
  IsValidate /\ call.var = "dcutoff" /\ call.arg \in {"-1", "0"} =>
    /\ pc = "stored"
    /\ stored.ok
    /\ stored.err = NoError
    /\ stored.val = "0"

C17_Witness ==
  /\ call.op = "value_validate"
  /\ call.var = "dcutoff"
  /\ call.arg = "-1"
  /\ pc = "stored"
  /\ stored.val = "0"

\* C18: every numeric validator but that of dcutoff throws or returns its
\* argument; dcutoffup and sccutoff throw for -1; dcutoff returns a value
\* equal to its argument whenever it accepts an argument other than -1.
C18_RemappingOnlyForDcutoff ==
  IsValidate =>
    /\ call.var # "dcutoff" => Rejected \/ Accepted
    /\ call.var \in {"dcutoffup", "sccutoff"} /\ call.arg = "-1" => RejectedWith(Msg_nonneg)
    /\ call.var = "dcutoff" /\ stored.ok /\ call.arg # "-1" => DblEq(stored.val, call.arg)

C18_Witness ==
  /\ call.op = "value_validate"
  /\ call.var = "sccutoff"
  /\ call.arg = "-1"
  /\ RejectedWith(Msg_nonneg)

----------------------------------------------------------------------------
(* vardef_inelas::str2val.                                                 *)

\* StrView::contains_only(chars): every character of s is one of chars
contains_only(s, chars) == \A i \in 1..Len(s) : \E j \in 1..Len(chars) : s[i] = chars[j]

\* isOneOf(s, ...): s equals one of the words
isOneOf(s, words) == \E i \in 1..Len(words) : s = words[i]

InelasChars ==
  <<"a", "b", "c", "d", "e", "f", "g", "h", "i", "j", "k",
     "l", "m", "n", "o", "p", "q", "r", "s", "t", "u", "v",
     "w", "x", "y", "z", "_", "0", "1", "2", "3", "4", "5", "6", "7", "8", "9">>

sv_0 == <<"0">>

Msg_inelas == "invalid value specified for parameter"

InelasReturn(result) == [ok |-> TRUE, val |-> result, var |-> "inelas", err |-> NoError]

InelasThrow(e) == [ok |-> FALSE, val |-> <<>>, var |-> "inelas", err |-> e]

\* vardef_inelas::str2val not knowing the word "false"
inelas_str2val_FalseKept(sv) ==
  IF sv = <<>> \/ ~contains_only(sv, InelasChars)
  THEN InelasThrow(BadInputIn("inelas", Msg_inelas, <<sv>>))
  ELSE IF isOneOf(sv, <<<<"n", "o", "n", "e">>, <<"0">>, <<"s", "t", "e", "r", "i", "l", "e">>>>)
  THEN InelasReturn(sv_0)
  ELSE InelasReturn(sv)

inelas_str2val(sv) ==
  IF sv = <<>> \/ ~contains_only(sv, InelasChars)
  THEN InelasThrow(BadInputIn("inelas", Msg_inelas, <<sv>>))
  ELSE IF isOneOf(sv, <<<<"n", "o", "n", "e">>, <<"0">>,
                    <<"s", "t", "e", "r", "i", "l", "e">>, <<"f", "a", "l", "s", "e">>>>)
  THEN InelasReturn(sv_0)
  ELSE InelasReturn(sv)

\* words handed to vardef_inelas::str2val besides the short strings
InelasWords ==
  { <<"n", "o", "n", "e">>,
    <<"0">>,
    <<"s", "t", "e", "r", "i", "l", "e">>,
    <<"f", "a", "l", "s", "e">>,
    <<"a", "u", "t", "o">>,
    <<"f", "r", "e", "e", "g", "a", "s">>,
    <<"N", "o", "n", "e">>,
    <<"n", "o", "n", "e", "e">>,
    <<"0", "0">>,
    <<"0", " ">>,
    <<" ", "0">>,
    <<"_">>,
    <<"a", "_", "1">>,
    <<"n", "o", "-", "n", "e">>,
    <<"s", "t", "e", "r", "i", "l">>,
    <<"f", "a", "l", "s", "E">>,
    <<"1">> }

InelasInputs == Inputs \cup InelasWords

\* vardef_inelas::str2val(sv) on a string of the caller
InelasStr2Val(sv) ==
  /\ pc = "start"
  /\ LET out == inelas_str2val(sv)
     IN  /\ pc' = IF out.ok THEN "stored" ELSE "thrown"
         /\ stored' = out
         /\ call' = [op |-> "inelas_str2val", arg |-> sv, from |-> "none",
                     pre |-> EmptyRequest, err |-> out.err]
  /\ UNCHANGED <<self, ret, nops>>

\* vardef_inelas::str2val on the value the variable holds
InelasStr2ValStored ==
  /\ pc = "stored"
  /\ nops < MaxOps
  /\ LET out == inelas_str2val(stored.val)
     IN  /\ pc' = IF out.ok THEN "stored" ELSE "thrown"
         /\ stored' = out
         /\ call' = [op |-> "inelas_str2valStored", arg |-> stored.val, from |-> call.op,
                     pre |-> EmptyRequest, err |-> out.err]
  /\ nops' = nops + 1
  /\ UNCHANGED <<self, ret>>

NextInelas ==
  \/ pc = "start" /\ \E sv \in InelasInputs : InelasStr2Val(sv)
  \/ InelasStr2ValStored

SpecInelas == Init /\ [][NextInelas]_vars

IsInelas == call.op \in {"inelas_str2val", "inelas_str2valStored"}

\* the tokens of section 4.2: lowercase letters, digits and underscore
TokenChars == LowerCase \cup Digits \cup {"_"}

IsToken(s) == s # <<>> /\ \A i \in 1..Len(s) : s[i] \in TokenChars

DisableWords == { <<"n", "o", "n", "e">>, <<"0">>, <<"s", "t", "e", "r", "i", "l", "e">>, <<"f", "a", "l", "s", "e">> }

\* C19: vardef_inelas::str2val throws BadInput for a string that is empty or
\* holds a character other than a lowercase letter, a digit or an underscore;
\* it returns "0" for "none", "0", "sterile" and "false"; it returns every
\* other token as it is; and applied to what it returned it returns the same.
C19_InelasCanonical ==
  IsInelas =>
    /\ ~IsToken(call.arg) =>
         /\ pc = "thrown"
         /\ ~stored.ok
         /\ stored.err = BadInputIn("inelas", Msg_inelas, <<call.arg>>)
    /\ IsToken(call.arg) =>
         /\ pc = "stored"
         /\ stored.ok
         /\ stored.val = IF call.arg \in DisableWords THEN <<"0">> ELSE call.arg
    /\ call.op = "inelas_str2valStored" => pc = "stored" /\ stored.val = call.arg

C19_Witness ==
  /\ call.op = "inelas_str2valStored"
  /\ call.from = "inelas_str2val"
  /\ call.arg = <<"0">>
  /\ stored.val = <<"0">>
  /\ nops = 1

----------------------------------------------------------------------------
(* The registry: varlist, the identifiers of the VarId enum, and the        *)
(* lookups between names and identifiers.                                  *)

\* varlist with the entries of mos and mosprec in the other order
varlist_MosprecBeforeMos ==
  << <<"a", "b", "s", "n", "f", "a", "c", "t", "o", "r", "y">>,
     <<"a", "t", "o", "m", "d", "b">>,
     <<"c", "o", "h", "_", "e", "l", "a", "s">>,
     <<"d", "c", "u", "t", "o", "f", "f">>,
     <<"d", "c", "u", "t", "o", "f", "f", "u", "p">>,
     <<"d", "i", "r", "1">>,
     <<"d", "i", "r", "2">>,
     <<"d", "i", "r", "t", "o", "l">>,
     <<"i", "n", "c", "o", "h", "_", "e", "l", "a", "s">>,
     <<"i", "n", "e", "l", "a", "s">>,
     <<"i", "n", "f", "o", "f", "a", "c", "t", "o", "r", "y">>,
     <<"l", "c", "a", "x", "i", "s">>,
     <<"l", "c", "m", "o", "d", "e">>,
     <<"m", "o", "s", "p", "r", "e", "c">>,
     <<"m", "o", "s">>,
     <<"s", "a", "n", "s">>,
     <<"s", "c", "a", "t", "f", "a", "c", "t", "o", "r", "y">>,
     <<"s", "c", "c", "u", "t", "o", "f", "f">>,
     <<"t", "e", "m", "p">>,
     <<"v", "d", "o", "s", "l", "u", "x">> >>

\* the names of the entries of varlist, in the order of the table
varlist ==
  << <<"a", "b", "s", "n", "f", "a", "c", "t", "o", "r", "y">>,
     <<"a", "t", "o", "m", "d", "b">>,
     <<"c", "o", "h", "_", "e", "l", "a", "s">>,
     <<"d", "c", "u", "t", "o", "f", "f">>,
     <<"d", "c", "u", "t", "o", "f", "f", "u", "p">>,
     <<"d", "i", "r", "1">>,
     <<"d", "i", "r", "2">>,
     <<"d", "i", "r", "t", "o", "l">>,
     <<"i", "n", "c", "o", "h", "_", "e", "l", "a", "s">>,
     <<"i", "n", "e", "l", "a", "s">>,
     <<"i", "n", "f", "o", "f", "a", "c", "t", "o", "r", "y">>,
     <<"l", "c", "a", "x", "i", "s">>,
     <<"l", "c", "m", "o", "d", "e">>,
     <<"m", "o", "s">>,
     <<"m", "o", "s", "p", "r", "e", "c">>,
     <<"s", "a", "n", "s">>,
     <<"s", "c", "a", "t", "f", "a", "c", "t", "o", "r", "y">>,
     <<"s", "c", "c", "u", "t", "o", "f", "f">>,
     <<"t", "e", "m", "p">>,
     <<"v", "d", "o", "s", "l", "u", "x">> >>

\* the enumerators of VarId, in the order of the enum
VarIdNames ==
  << <<"t", "e", "m", "p">>,
     <<"s", "c", "c", "u", "t", "o", "f", "f">>,
     <<"d", "c", "u", "t", "o", "f", "f">>,
     <<"d", "c", "u", "t", "o", "f", "f", "u", "p">>,
     <<"d", "i", "r", "t", "o", "l">>,
     <<"m", "o", "s", "p", "r", "e", "c">>,
     <<"v", "d", "o", "s", "l", "u", "x">>,
     <<"l", "c", "m", "o", "d", "e">>,
     <<"l", "c", "a", "x", "i", "s">>,
     <<"m", "o", "s">>,
     <<"d", "i", "r", "1">>,
     <<"d", "i", "r", "2">>,
     <<"s", "a", "n", "s">>,
     <<"i", "n", "c", "o", "h", "_", "e", "l", "a", "s">>,
     <<"i", "n", "e", "l", "a", "s">>,
     <<"c", "o", "h", "_", "e", "l", "a", "s">>,
     <<"a", "t", "o", "m", "d", "b">>,
     <<"i", "n", "f", "o", "f", "a", "c", "t", "o", "r", "y">>,
     <<"s", "c", "a", "t", "f", "a", "c", "t", "o", "r", "y">>,
     <<"a", "b", "s", "n", "f", "a", "c", "t", "o", "r", "y">> >>

NotFound == [found |-> FALSE, idx |-> Len(varlist)]

\* constexpr_name2Idx(varlist, name): the index, from 0, of the entry of the
\* table with that name
constexpr_name2Idx(list, name) ==
  IF \E i \in 1..Len(list) : list[i] = name
  THEN [found |-> TRUE, idx |-> (CHOOSE i \in 1..Len(list) : list[i] = name) - 1]
  ELSE NotFound

constexpr_varName2Idx(name) == constexpr_name2Idx(varlist, name)

constexpr_varIdFromName(name) == constexpr_varName2Idx(name).idx

\* varName reading the entry after the one of the identifier
varName_NextEntry(varid) == varlist[((varid + 1) % Len(varlist)) + 1]

varName(varid) == varlist[varid + 1]

\* VarId::<name> = constexpr_varName2Idx("<name>"), after the identifier the
\* previous step produced
VarIdFromName(k) ==
  /\ pc \in {"start", "looked"}
  /\ nops < MaxOps
  /\ LET name == VarIdNames[k]
     IN  /\ constexpr_varName2Idx(name).found
         /\ ret' = [id |-> constexpr_varIdFromName(name), name |-> name]
         /\ call' = [op |-> "constexpr_varIdFromName", arg |-> name, from |-> call.op,
                     pre |-> ret, err |-> NoError]
  /\ self' = ret
  /\ pc' = "looked"
  /\ nops' = nops + 1
  /\ UNCHANGED stored

\* varName(varid) on the identifier the previous step produced
VarName ==
  /\ pc = "looked"
  /\ stored' = [ok |-> TRUE, val |-> varName(ret.id), var |-> "varName", err |-> NoError]
  /\ call' = [op |-> "varName", arg |-> ret.id, from |-> call.op, pre |-> ret,
              err |-> NoError]
  /\ pc' = "named"
  /\ UNCHANGED <<self, ret, nops>>

NextReg ==
  \/ \E k \in 1..Len(VarIdNames) : VarIdFromName(k)
  \/ VarName

SpecReg == Init /\ [][NextReg]_vars

\* the characters in the order of their codes
AsciiOrder ==
  <<" ", "!", "$", "-", "0", "1", "2", "3", "4", "5", "6", "7", "8", "9", ":", "@",
    "A", "B", "C", "D", "E", "F", "G", "H", "I", "J", "K", "L", "M",
    "N", "O", "P", "Q", "R", "S", "T", "U", "V", "W", "X", "Y", "Z", "_",
    "a", "b", "c", "d", "e", "f", "g", "h", "i", "j", "k", "l", "m",
    "n", "o", "p", "q", "r", "s", "t", "u", "v", "w", "x", "y", "z">>

CharRank(c) == CHOOSE i \in 1..Len(AsciiOrder) : AsciiOrder[i] = c

\* a comes before b in alphabetical order: at the first position where they
\* differ a has ended or has the character of the smaller code
StrLess(a, b) ==
  \E k \in 1..(Len(b)) :
    /\ k <= Len(a) + 1
    /\ \A j \in 1..(k - 1) : a[j] = b[j]
    /\ k = Len(a) + 1 \/ CharRank(a[k]) < CharRank(b[k])

\* the last two steps produced the identifiers of two variables
TwoLookups == call.op = "constexpr_varIdFromName" /\ call.from = "constexpr_varIdFromName"

\* C20: varlist is strictly sorted by name, so no name is in it twice, the
\* name of an identifier is the name it was looked up by, and of two
\* variables the one with the smaller identifier is the one whose name comes
\* first in alphabetical order.
C20_VarlistSortedByName ==
  /\ \A i \in 1..(Len(varlist) - 1) : StrLess(varlist[i], varlist[i + 1])
  /\ \A i, j \in 1..Len(varlist) : varlist[i] = varlist[j] => i = j
  /\ call.op = "constexpr_varIdFromName" => varlist[ret.id + 1] = call.arg
  /\ call.op = "varName" => stored.val = ret.name
  /\ TwoLookups => (self.id < ret.id <=> StrLess(self.name, ret.name))

C20_Witness ==
  /\ TwoLookups
  /\ self.name = <<"m", "o", "s", "p", "r", "e", "c">>
  /\ ret.name = <<"m", "o", "s">>
  /\ ret.id < self.id
  /\ StrLess(ret.name, self.name)

\* the identifiers: the indices of varlist, from 0
VarIds == 0..(Len(varlist) - 1)

\* C21: for every name in varlist the identifier looked up from the name is
\* an index of varlist and varName of it is that name; the enumerators of
\* VarId denote different entries of varlist, each the entry with the name
\* of the enumerator, and every entry of varlist has an enumerator.
C21_LookupDescribeInverse ==
  /\ \A i \in 1..Len(varlist) :
       /\ constexpr_varName2Idx(varlist[i]).found
       /\ constexpr_varIdFromName(varlist[i]) \in VarIds
       /\ varName(constexpr_varIdFromName(varlist[i])) = varlist[i]
  /\ \A k \in 1..Len(VarIdNames) :
       /\ constexpr_varName2Idx(VarIdNames[k]).found
       /\ varName(constexpr_varIdFromName(VarIdNames[k])) = VarIdNames[k]
  /\ \A k, l \in 1..Len(VarIdNames) :
       constexpr_varIdFromName(VarIdNames[k]) = constexpr_varIdFromName(VarIdNames[l])
         => k = l
  /\ \A i \in 1..Len(varlist) : \E k \in 1..Len(VarIdNames) : VarIdNames[k] = varlist[i]
  /\ call.op = "constexpr_varIdFromName" => ret.name = call.arg /\ ret.id \in VarIds
  /\ call.op = "varName" =>
       /\ call.arg \in VarIds
       /\ call.arg = call.pre.id
       /\ stored.val = call.pre.name

C21_Witness ==
  /\ call.op = "varName"
  /\ call.from = "constexpr_varIdFromName"
  /\ call.pre.name = <<"t", "e", "m", "p">>
  /\ call.arg = Len(varlist) - 2
  /\ stored.val = <<"t", "e", "m", "p">>

----------------------------------------------------------------------------
(* Several threads calling the operations above on the same registry and   *)
(* on the same FactNameRequest object. Here                                *)
(*   stored  is what the threads share: the table and the request object   *)
(*   pc[t]   "idle", "running" or "done"                                   *)
(*   call[t] the call thread t makes                                       *)
(*   self[t] the local variables of the call: the position of the loop of  *)
(*           excludes and what it found                                    *)
(*   ret[t]  what the last finished call of thread t returned or threw     *)
(*   nops    calls begun                                                   *)
(* A call takes one step, except that the loop of excludes reads one       *)
(* element of m_excluded per step.                                         *)

Threads == {"t1", "t2"}

\* the request object the threads share: doParse("a@!b@!c")
SharedRequest == [m_specific |-> <<"a">>, m_excluded |-> << <<"b">>, <<"c">> >>]

SharedInit == [varlist |-> varlist, request |-> SharedRequest]

ThreadNames == { <<"a">>, <<"b">>, <<"c">>, <<"d">> }

ThreadStrings == { <<"a">>, <<"a", "@", "!", "b">>, <<"a", "@", "a">>, <<"!", "a", "@", "a">> }

\* the variables the threads look up
ThreadVarNames ==
  { <<"t", "e", "m", "p">>, <<"m", "o", "s">>,
    <<"a", "b", "s", "n", "f", "a", "c", "t", "o", "r", "y">> }

\* the calls a thread can make
ThreadCalls ==
  { [op |-> "excludes", arg |-> fn, var |-> "none"] : fn \in ThreadNames }
    \cup { [op |-> "withAdditionalExclude", arg |-> fn, var |-> "none"] : fn \in ThreadNames }
    \cup { [op |-> "withNoSpecificRequest", arg |-> <<>>, var |-> "none"] }
    \cup { [op |-> "doParse", arg |-> sv, var |-> "none"] : sv \in ThreadStrings }
    \cup { [op |-> "constexpr_varIdFromName", arg |-> n, var |-> "none"] :
             n \in ThreadVarNames }
    \cup { [op |-> "varName", arg |-> constexpr_varIdFromName(n), var |-> "none"] :
             n \in ThreadVarNames }
    \cup { [op |-> "value_validate", arg |-> v, var |-> var] :
             var \in {"temp", "dcutoff"}, v \in {"-1", "1"} }

NoLocals == [i |-> 1, found |-> FALSE, scanned |-> FALSE]

\* one turn of the loop of FactNameRequest::excludes on this
excludesStep(this, local, fn) ==
  IF local.i > Len(this.m_excluded) THEN [local EXCEPT !.scanned = TRUE]
  ELSE IF fn = this.m_excluded[local.i]
  THEN [local EXCEPT !.found = TRUE, !.scanned = TRUE]
  ELSE [local EXCEPT !.i = local.i + 1]

\* the rest of withAdditionalExclude, adding the name to the receiver itself
withAdditionalExcludeRest_InPlace(shared, found, factname) ==
  IF found THEN [shared |-> shared, result |-> shared.request]
  ELSE LET res == [shared.request EXCEPT !.m_excluded = Append(@, factname)]
       IN  [shared |-> [shared EXCEPT !.request = res], result |-> res]

\* the rest of withAdditionalExclude after excludes returned found: what is
\* shared after it, and what it returns
withAdditionalExcludeRest(shared, found, factname) ==
  IF found THEN [shared |-> shared, result |-> shared.request]
  ELSE [shared |-> shared,
        result |-> [shared.request EXCEPT !.m_excluded = Append(@, factname)]]

InitThreads ==
  /\ pc = [t \in Threads |-> "idle"]
  /\ self = [t \in Threads |-> NoLocals]
  /\ ret = [t \in Threads |-> NoError]
  /\ call = [t \in Threads |-> NoCall]
  /\ nops = 0
  /\ stored = SharedInit

\* thread t begins the call c
BeginCall(t, c) ==
  /\ pc[t] \in {"idle", "done"}
  /\ nops < MaxOps
  /\ pc' = [pc EXCEPT ![t] = "running"]
  /\ call' = [call EXCEPT ![t] = c]
  /\ self' = [self EXCEPT ![t] = NoLocals]
  /\ nops' = nops + 1
  /\ UNCHANGED <<ret, stored>>

\* thread t, in excludes (called by itself or by withAdditionalExclude),
\* takes one turn of the loop
ExcludesTurn(t) ==
  /\ pc[t] = "running"
  /\ call[t].op \in {"excludes", "withAdditionalExclude"}
  /\ ~self[t].scanned
  /\ self' = [self EXCEPT ![t] = excludesStep(stored.request, self[t], call[t].arg)]
  /\ UNCHANGED <<pc, call, ret, nops, stored>>

\* thread t returns from excludes
ExcludesReturn(t) ==
  /\ pc[t] = "running"
  /\ call[t].op = "excludes"
  /\ self[t].scanned
  /\ ret' = [ret EXCEPT ![t] = self[t].found]
  /\ pc' = [pc EXCEPT ![t] = "done"]
  /\ UNCHANGED <<self, call, nops, stored>>

\* thread t finishes withAdditionalExclude
WithAdditionalExcludeReturn(t) ==
  /\ pc[t] = "running"
  /\ call[t].op = "withAdditionalExclude"
  /\ self[t].scanned
  /\ LET out == withAdditionalExcludeRest(stored, self[t].found, call[t].arg)
     IN  /\ stored' = out.shared
         /\ ret' = [ret EXCEPT ![t] = out.result]
  /\ pc' = [pc EXCEPT ![t] = "done"]
  /\ UNCHANGED <<self, call, nops>>

\* what a call that has no loop over shared data returns
plainCall(shared, c) ==
  CASE c.op = "withNoSpecificRequest"   -> withNoSpecificRequest(shared.request)
    [] c.op = "doParse"                 -> doParse(c.arg)
    [] c.op = "constexpr_varIdFromName" -> constexpr_name2Idx(shared.varlist, c.arg)
    [] c.op = "varName"                 -> shared.varlist[c.arg + 1]
    [] c.op = "value_validate"          -> value_validate(c.var, c.arg)

\* thread t makes a call of the other operations
PlainCallReturn(t) ==
  /\ pc[t] = "running"
  /\ call[t].op \notin {"excludes", "withAdditionalExclude"}
  /\ ret' = [ret EXCEPT ![t] = plainCall(stored, call[t])]
  /\ pc' = [pc EXCEPT ![t] = "done"]
  /\ UNCHANGED <<self, call, nops, stored>>

NextThreads ==
  \E t \in Threads :
    \/ \E c \in ThreadCalls : BeginCall(t, c)
    \/ ExcludesTurn(t)
    \/ ExcludesReturn(t)
    \/ WithAdditionalExcludeReturn(t)
    \/ PlainCallReturn(t)

SpecThreads == InitThreads /\ [][NextThreads]_vars

\* what the call c returns when it runs alone
AloneResult(c) ==
  CASE c.op = "excludes"                -> excludes(SharedRequest, c.arg)
    [] c.op = "withAdditionalExclude"   -> withAdditionalExclude(SharedRequest, c.arg)
    [] c.op = "withNoSpecificRequest"   -> withNoSpecificRequest(SharedRequest)
    [] c.op = "doParse"                 -> doParse(c.arg)
    [] c.op = "constexpr_varIdFromName" -> constexpr_varName2Idx(c.arg)
    [] c.op = "varName"                 -> varName(c.arg)
    [] c.op = "value_validate"          -> value_validate(c.var, c.arg)

\* C22: whatever the threads do in whatever order, the table and the shared
\* request object stay as they were, and every finished call has returned
\* what it returns when it runs alone.
C22_NoSharedStateWritten ==
  /\ stored = SharedInit
  /\ \A t \in Threads : pc[t] = "done" => ret[t] = AloneResult(call[t])

\* both threads are inside withAdditionalExclude on the shared object, one
\* has finished with a new name and the other is in the loop
C22_Witness ==
  /\ pc["t1"] = "done"
  /\ call["t1"].op = "withAdditionalExclude"
  /\ call["t1"].arg = <<"d">>
  /\ ret["t1"].m_excluded = << <<"b">>, <<"c">>, <<"d">> >>
  /\ pc["t2"] = "running"
  /\ call["t2"].op = "withAdditionalExclude"
  /\ self["t2"].i > 1
  /\ stored.request = SharedRequest

----------------------------------------------------------------------------
(* NCTypes.cc: operator<< of OrientDir and of DensityState. A number is    *)
(* written by the name of its value, as above. Here                        *)
(*   self    the object made last                                          *)
(*   stored  the characters written to the stream os so far                *)
(*   call    the last operator<< call: the object and what it wrote        *)

\* fmt(x): the decimal text of a double
fmt(x) ==
  CASE x = "0"   -> <<"0">>
    [] x = "1"   -> <<"1">>
    [] x = "-1"  -> <<"-", "1">>
    [] x = "0.5" -> <<"0", ".", "5">>

FmtNumbers == {"0", "1", "-1", "0.5"}

\* os << fmt(v[0]) << ',' << fmt(v[1]) << ',' << fmt(v[2])
fmtVector(v) == fmt(v[1]) \o <<",">> \o fmt(v[2]) \o <<",">> \o fmt(v[3])

\* what od.crystal, a Variant of CrystalAxis and HKLPoint, can hold
NoVector == <<>>

Txt_crys == <<"@", "c", "r", "y", "s", ":">>

Txt_crys_hkl == <<"@", "c", "r", "y", "s", "_", "h", "k", "l", ":">>

Txt_missing == <<"@", "c", "r", "y", "s", ":", "<", "M", "I", "S", "S", "I", "N", "G", ">">>

Txt_lab == <<"@", "l", "a", "b", ":">>

\* operator<<( std::ostream&, const OrientDir& ): the characters written
streamOrientDir(od) ==
  ( IF od.crystal.kind = "CrystalAxis" THEN Txt_crys \o fmtVector(od.crystal.v)
    ELSE IF od.crystal.kind = "HKLPoint" THEN Txt_crys_hkl \o fmtVector(od.crystal.v)
    ELSE Txt_missing )
  \o Txt_lab \o fmtVector(od.lab)

DensityTypes == {"SCALEFACTOR", "DENSITY", "NUMBERDENSITY"}

Txt_x == <<"x">>

Txt_gcm3 == <<"g", "c", "m", "3">>

Txt_perAa3 == <<"p", "e", "r", "A", "a", "3">>

\* operator<< of DensityState writing "gcm3" for a number density too
streamDensityState_NumberDensityAsGcm3(ds) ==
  IF ds.type = "SCALEFACTOR" THEN fmt(ds.value) \o Txt_x
  ELSE fmt(ds.value) \o Txt_gcm3

\* operator<<( std::ostream&, const DensityState& ): the characters written
streamDensityState(ds) ==
  IF ds.type = "SCALEFACTOR" THEN fmt(ds.value) \o Txt_x
  ELSE IF ds.type = "DENSITY" THEN fmt(ds.value) \o Txt_gcm3
  ELSE fmt(ds.value) \o Txt_perAa3

\* the vectors and objects handed to the operators
TypeVectors == { <<"1", "0", "0">>, <<"0", "0", "1">>, <<"0.5", "-1", "1">> }

OrientDirs ==
  { [class |-> "OrientDir", crystal |-> [kind |-> k, v |-> v], lab |-> l] :
      k \in {"CrystalAxis", "HKLPoint"}, v \in TypeVectors, l \in TypeVectors }
    \cup { [class |-> "OrientDir", crystal |-> [kind |-> "empty", v |-> NoVector], lab |-> l] :
             l \in TypeVectors }

DensityStates ==
  { [class |-> "DensityState", type |-> ty, value |-> x] :
      ty \in DensityTypes, x \in {"0", "1", "0.5"} }

NoObject == [class |-> "none"]

InitTypes ==
  /\ pc = "start"
  /\ self = NoObject
  /\ ret = EmptyRequest
  /\ call = [op |-> "none", arg |-> NoObject, out |-> <<>>]
  /\ nops = 0
  /\ stored = <<>>

\* an OrientDir or a DensityState object of the caller
MakeObject(obj) ==
  /\ pc \in {"start", "streamed"}
  /\ nops < MaxOps
  /\ self' = obj
  /\ pc' = "made"
  /\ nops' = nops + 1
  /\ UNCHANGED <<ret, call, stored>>

\* os << od
StreamOrientDir ==
  /\ pc = "made"
  /\ self.class = "OrientDir"
  /\ stored' = stored \o streamOrientDir(self)
  /\ call' = [op |-> "streamOrientDir", arg |-> self, out |-> streamOrientDir(self)]
  /\ pc' = "streamed"
  /\ UNCHANGED <<self, ret, nops>>

\* os << ds
StreamDensityState ==
  /\ pc = "made"
  /\ self.class = "DensityState"
  /\ stored' = stored \o streamDensityState(self)
  /\ call' = [op |-> "streamDensityState", arg |-> self, out |-> streamDensityState(self)]
  /\ pc' = "streamed"
  /\ UNCHANGED <<self, ret, nops>>

NextTypes ==
  \/ \E obj \in OrientDirs \cup DensityStates : MakeObject(obj)
  \/ StreamOrientDir
  \/ StreamDensityState

SpecTypes == InitTypes /\ [][NextTypes]_vars

----------------------------------------------------------------------------
(* What the statements below say about a rendering.                        *)

\* sub occurs in s
Contains(s, sub) ==
  \E k \in 0..(Len(s) - Len(sub)) : \A j \in 1..Len(sub) : s[k + j] = sub[j]

EndsWith(s, sub) ==
  /\ Len(sub) <= Len(s)
  /\ \A j \in 1..Len(sub) : s[Len(s) - Len(sub) + j] = sub[j]

NumberTexts == { fmt(x) : x \in FmtNumbers }

\* three numbers with commas between them
ThreeNumbers == { a \o <<",">> \o b \o <<",">> \o c : a, b, c \in NumberTexts }

\* "@crys:" or "@crys_hkl:", three numbers, "@lab:", three numbers
WellFormedOrientDirText(s) ==
  \E head \in {Txt_crys, Txt_crys_hkl} : \E c, l \in ThreeNumbers :
    s = head \o c \o Txt_lab \o l

\* C23 as stated: every OrientDir handed to operator<< holds a CrystalAxis or
\* an HKLPoint, its rendering is "@crys:" or "@crys_hkl:" with three numbers
\* followed by "@lab:" with three numbers, and "<MISSING>" is never written.
C23_OneCrystalFrameAlways ==
  call.op = "streamOrientDir" =>
    /\ call.arg.crystal.kind \in {"CrystalAxis", "HKLPoint"}
    /\ WellFormedOrientDirText(call.out)
    /\ ~Contains(call.out, <<"<", "M", "I", "S", "S", "I", "N", "G", ">">>)
    /\ ~Contains(stored, <<"<", "M", "I", "S", "S", "I", "N", "G", ">">>)

SuffixOf(ty) ==
  CASE ty = "SCALEFACTOR"   -> Txt_x
    [] ty = "DENSITY"       -> Txt_gcm3
    [] ty = "NUMBERDENSITY" -> Txt_perAa3

\* C24: a DensityState is rendered as its value followed by "x", "gcm3" or
\* "perAa3" for SCALEFACTOR, DENSITY and NUMBERDENSITY; the suffixes differ,
\* and the rendering ends with the suffix of its own tag and of no other.
C24_SuffixByTag ==
  /\ \A ty1, ty2 \in DensityTypes : SuffixOf(ty1) = SuffixOf(ty2) => ty1 = ty2
  /\ call.op = "streamDensityState" =>
       /\ call.out = fmt(call.arg.value) \o SuffixOf(call.arg.type)
       /\ EndsWith(stored, call.out)
       /\ \A ty \in DensityTypes : EndsWith(call.out, SuffixOf(ty)) <=> ty = call.arg.type

C24_Witness ==
  /\ call.op = "streamDensityState"
  /\ call.arg.type = "NUMBERDENSITY"
  /\ call.arg.value = "0.5"
  /\ call.out = <<"0", ".", "5", "p", "e", "r", "A", "a", "3">>
  /\ pc = "streamed"

----------------------------------------------------------------------------
(* What the exceptions carry.                                              *)

\* the exception names the variable var, quotes the token tok and gives a
\* reason
CarriesNameTokenReason(e, var, tok) ==
  /\ e # NoError
  /\ e.var = var
  /\ e.kind # ""
  /\ \E i \in 1..Len(e.names) : e.names[i] = tok

\* C25 as stated: a call of value_validate returns a value or throws BadInput,
\* and every BadInput it throws carries the name of the variable, the
\* offending value and a reason.
C25_ErrorsCarryNameTokenReason ==
  IsValidate =>
    /\ (pc = "stored" /\ stored.ok) \/ (pc = "thrown" /\ ~stored.ok)
    /\ ~stored.ok => CarriesNameTokenReason(stored.err, call.var, call.arg)

----------------------------------------------------------------------------
(* str2val of the four variables whose value has a grammar of its own.     *)

NextStr2Val ==
  \/ pc = "start" /\ \E name \in FactoryVars, sv \in Inputs : Str2Val(name, sv)
  \/ pc = "start" /\ \E ls \in AtomDbInputs : AtomDbStr2Val(ls)

SpecStr2Val == Init /\ [][NextStr2Val]_vars

\* C26: when doParse throws for the value of infofactory, scatfactory or
\* absnfactory, or validateAtomDBLine throws for a line of the value of
\* atomdb, what reaches the caller is another BadInput that names the
\* variable and ends with the message of the one thrown by the grammar.
C26_GrammarErrorsWrapped ==
  /\ call.op = "str2val" /\ ~doParse(call.arg).ok =>
       /\ pc = "thrown"
       /\ ~stored.ok
       /\ stored.var \in FactoryVars
       /\ stored.err.kind = "SyntaxErrorInParameter"
       /\ stored.err.var = stored.var
       /\ stored.err.what = doParse(call.arg).err
  /\ call.op = "atomdb_str2val" =>
       LET lines == LinesOf(call)
           k     == FirstOffence(lines)
       IN  (k > 0 /\ BadLineAt(lines, k)) =>
             /\ pc = "thrown"
             /\ ~stored.ok
             /\ stored.err.kind = "InvalidEntryInLine"
             /\ stored.err.var = "atomdb"
             /\ stored.err.what = validateAtomDBLineError(lines[k])

C26_Witness ==
  /\ call.op = "str2val"
  /\ pc = "thrown"
  /\ stored.var = "absnfactory"
  /\ stored.err.var = "absnfactory"
  /\ stored.err.kind = "SyntaxErrorInParameter"
  /\ stored.err.what = BadInput("MoreThanOneNonNegatedEntry", << <<"a">>, <<"b">> >>)

----------------------------------------------------------------------------
\* a list of names in alphabetical order, equal neighbours allowed
SortedNames(seq) ==
  \A i \in 1..(Len(seq) - 1) : seq[i] = seq[i + 1] \/ StrLess(seq[i], seq[i + 1])

\* C27 as stated: after any sequence of doParse, withAdditionalExclude and
\* withNoSpecificRequest the list m_excluded of the request is sorted.
C27_ExcludedIsSorted ==
  pc = "live" => SortedNames(ret.m_excluded)

----------------------------------------------------------------------------
\* the integers of the model that the documentation of vdoslux allows
VdosluxAllowed == {"0", "1", "2", "3", "4", "5"}

\* the integers of the model from -4000000000 to 4000000000
LcmodeAllowed ==
  {"-4000000000", "-3999999999", "-2147483649", "-2147483648", "-6", "-1", "0", "1",
   "2", "3", "4", "5", "6", "2147483647", "2147483648", "3999999999", "4000000000"}

\* C28: vdoslux accepts the integers 0 to 5 and lcmode the integers from
\* -4000000000 to 4000000000, those outside the 32-bit range among them, each
\* returned as it is; every other integer is rejected with BadInput.
C28_IntegerRangesExact ==
  IsValidate =>
    /\ call.var = "vdoslux" /\ call.arg \in VdosluxAllowed => Accepted
    /\ call.var = "vdoslux" /\ call.arg \notin VdosluxAllowed => RejectedWith(Msg_vdoslux)
    /\ call.var = "lcmode" /\ call.arg \in LcmodeAllowed => Accepted
    /\ call.var = "lcmode" /\ call.arg \notin LcmodeAllowed => RejectedWith(Msg_lcmode)

C28_Witness ==
  /\ call.op = "value_validate"
  /\ call.var = "lcmode"
  /\ call.arg = "-4000000000"
  /\ IntLt(call.arg, "-2147483648")
  /\ Accepted

----------------------------------------------------------------------------
(* default_value of the vardef structs, and the validator of a variable    *)
(* applied to it.                                                          *)

NullOpt == [has |-> FALSE, value |-> "none"]

DefaultIs(v) == [has |-> TRUE, value |-> v]

\* vardef_<var>::default_value()
default_value(var) ==
  CASE var = "temp"        -> DefaultIs("-1")
    [] var = "dcutoff"     -> DefaultIs("0")
    [] var = "dcutoffup"   -> DefaultIs(kInfinity)
    [] var = "sccutoff"    -> DefaultIs("0.4")
    [] var = "mos"         -> NullOpt
    [] var = "dir1"        -> NullOpt
    [] var = "dir2"        -> NullOpt
    [] var = "dirtol"      -> DefaultIs("1e-4")
    [] var = "mosprec"     -> DefaultIs("0.001")
    [] var = "vdoslux"     -> DefaultIs("3")
    [] var = "lcaxis"      -> NullOpt
    [] var = "lcmode"      -> DefaultIs("0")
    [] var = "incoh_elas"  -> DefaultIs(TRUE)
    [] var = "coh_elas"    -> DefaultIs(TRUE)
    [] var = "sans"        -> DefaultIs(TRUE)
    [] var = "inelas"      -> DefaultIs(<<"a", "u", "t", "o">>)
    [] var = "infofactory" -> DefaultIs(<<>>)
    [] var = "scatfactory" -> DefaultIs(<<>>)
    [] var = "absnfactory" -> DefaultIs(<<>>)
    [] var = "atomdb"      -> DefaultIs(<<>>)

\* the variables, by the name member of their vardef struct
VarNames ==
  {"temp", "dcutoff", "dcutoffup", "sccutoff", "mos", "dir1", "dir2", "dirtol",
   "mosprec", "vdoslux", "lcaxis", "lcmode", "incoh_elas", "coh_elas", "sans",
   "inelas", "infofactory", "scatfactory", "absnfactory", "atomdb"}

\* the variables whose vardef struct has a value_validate or a str2val
ValidatedVars == NumVars \cup {"inelas", "atomdb"} \cup FactoryVars

\* value_validate or str2val of the variable var
validatorOf(var, value) ==
  CASE var \in NumVars     -> value_validate(var, value)
    [] var = "inelas"      -> inelas_str2val(value)
    [] var \in FactoryVars -> factory_str2val(var, value)
    [] var = "atomdb"      -> atomdb_str2val(value)

\* the validator of var on default_value() of var, whatever the variable
\* held before
ValidateDefault(var) ==
  /\ pc \in {"start", "stored", "thrown"}
  /\ nops < MaxOps
  /\ default_value(var).has
  /\ LET out == validatorOf(var, default_value(var).value)
     IN  /\ pc' = IF out.ok THEN "stored" ELSE "thrown"
         /\ stored' = out
         /\ call' = [op |-> "validateDefault", arg |-> default_value(var).value,
                     var |-> var, from |-> call.op, pre |-> EmptyRequest,
                     err |-> out.err]
  /\ nops' = nops + 1
  /\ UNCHANGED <<self, ret>>

NextDefaults ==
  \/ pc = "start" /\ \E var \in NumVars : \E value \in ValuesOf(var) : ValueValidate(var, value)
  \/ \E var \in ValidatedVars : ValidateDefault(var)

SpecDefaults == Init /\ [][NextDefaults]_vars

\* the defaults as the statement below lists them
ListedDefault(var) ==
  CASE var = "temp"        -> "-1"
    [] var = "dcutoff"     -> "0"
    [] var = "dcutoffup"   -> "inf"
    [] var = "sccutoff"    -> "0.4"
    [] var = "dirtol"      -> "1e-4"
    [] var = "mosprec"     -> "0.001"
    [] var = "vdoslux"     -> "3"
    [] var = "lcmode"      -> "0"
    [] var = "inelas"      -> <<"a", "u", "t", "o">>
    [] var \in FactoryVars \cup {"atomdb"} -> <<>>

\* C29: the variables without a default are mos, dir1, dir2 and lcaxis; the
\* default of every other variable that has a validator is the listed one,
\* and the validator accepts it and returns it as it is.
C29_DefaultsAccepted ==
  /\ \A var \in VarNames : ~default_value(var).has <=> var \in {"mos", "dir1", "dir2", "lcaxis"}
  /\ call.op = "validateDefault" =>
       /\ call.arg = ListedDefault(call.var)
       /\ pc = "stored"
       /\ stored.ok
       /\ stored.var = call.var
       /\ stored.val = call.arg

C29_Witness ==
  /\ call.op = "validateDefault"
  /\ call.var = "dcutoffup"
  /\ call.arg = "inf"
  /\ call.from = "value_validate"
  /\ stored.ok
  /\ stored.val = "inf"

----------------------------------------------------------------------------
\* C30: vardef_atomdb::str2val applied to a string it returned returns that
\* string; what it returns holds no whitespace; and lines made of whitespace
\* and ':' only change nothing: the result, value or exception, is that of
\* the other lines alone, so such a line before "nodefaults" does no harm.
C30_AtomDbIdempotent ==
  IsAtomDb =>
    /\ call.op = "atomdb_str2valStored" =>
         /\ pc = "stored"
         /\ stored.ok
         /\ stored.val = call.arg
    /\ stored.ok => \A i \in 1..Len(stored.val) : ~isWhiteSpace(stored.val[i])
    /\ stored = atomdb_str2val(CanonText(LinesOf(call)))

C30_Witness ==
  /\ call.op = "atomdb_str2valStored"
  /\ call.from = "atomdb_str2val"
  /\ Len(call.fields) = 2
  /\ call.fields[1] = <<>>
  /\ IsNodefaults(call.fields[2])
  /\ call.arg = W_nodefaults
  /\ stored.ok
  /\ stored.val = W_nodefaults

====
